---- MODULE Spec2Model ----
(***************************************************************************)
(* Trace resolution of src/backward/resolve.cpp: the process-wide facade   *)
(* resolve() with its address cache and mutex, the backend contract        *)
(* (load_addresses / resolve), the libdwarf backend with its object-file   *)
(* cache and compilation-unit cache, and the positional backtrace_symbol   *)
(* backend.                                                                *)
(***************************************************************************)
EXTENDS Integers, Sequences, FiniteSets, TLC

VARIABLES
  pc,              \* per thread: position inside the facade resolve()
  batch,           \* per thread: the span of addresses passed to resolve()
  idx,             \* per thread: loop index i (0-based, as in the code)
  ret,             \* per thread: the vector ret being filled
  pending,         \* per thread: res, the trace the backend returned
  mutex,           \* static std::mutex: the holder, or None
  locs,            \* static std::unordered_map<void*, SourceLoc>
  backend,         \* which TraceResolverImpl the build selected
  symbols,         \* backtrace_symbol backend: _symbols
  dwarf_loaded,    \* libdwarf backend: _dwarf_loaded
  fobj_dwarf_map,  \* libdwarf backend: _fobj_dwarf_map
  disk,            \* the files that open() sees
  pool,            \* the addresses the callers' stack traces can hold
  calls,           \* number of facade calls made so far
  resolveCount,    \* per address: invocations of the backend's resolve
  resolved,        \* per address: the source the backend returned
  returned,        \* per address: every value the facade handed out for it
  primed,          \* the batch last passed to load_addresses
  lastTrace,       \* the last backend resolve: its (addr, idx), if any
  openCount,       \* per path: open() calls made by the loader
  parseCount,      \* per path: elf_begin() calls made by the loader
  buildCount,      \* per path and unit offset: die_cache entries built
  handles,         \* per address: Dwarf_Die handles its resolve obtained
                   \* and handed to dwarf_dealloc
  consulted,       \* the get_spec_die lookups made: the path, the unit of
                   \* the node and the unit fobj.current_cu pointed to
  namespace_stack, \* per address: namespace_stack of resolve when the tree
                   \* walk returned
  loadLog,         \* per address: the load its backend resolve made
  die,             \* die walk: the DIE under examination
  depth,           \* die walk: number of active recursive calls
  walk,            \* die walk: which recursion is running
  links,           \* die walk: the reference attributes of the debug tree
  split,           \* split_source_prefixes: its argument and its result
  hnd,             \* details::handle: the handles alive and the deleter calls
  cu_scan          \* find_die: the object scanned, the position of the debug
                   \* library's unit iterator and the results so far

vars == <<pc, batch, idx, ret, pending, mutex, locs, backend, symbols,
          dwarf_loaded, fobj_dwarf_map, disk, pool, calls, resolveCount, resolved,
          returned, primed, lastTrace, openCount, parseCount, buildCount, handles, consulted,
    namespace_stack, loadLog,
          die, depth, walk, links, split, hnd, cu_scan>>

walkVars == <<die, depth, walk, links>>

detailVars == <<split, hnd, cu_scan>>

(***************************************************************************)
(* Bounds of the model.                                                    *)
(***************************************************************************)
MaxBatch == 2
MaxCalls == 2
MaxLoads == 3
MaxDepth == 3
MaxPath == 4
MaxOps == 4
MaxScans == 4

None == "none"
Threads == {"t1", "t2"}

EmptyMap == [x \in {} |-> x]

\* std::map / unordered_map insertion that keeps an existing key (emplace,
\* insert) and assignment through operator[] that overwrites it.
MapPut(m, k, v) == (k :> v) @@ m

MapInsert(m, k, v) == m @@ (k :> v)

(***************************************************************************)
(* Data model.                                                             *)
(***************************************************************************)
\* A default-constructed SourceLoc: no filename, no function, line and
\* column 0 (the "couldn't be deduced" value).
SourceLoc == [filename |-> "", function |-> "", line |-> 0, col |-> 0]

Trace(addr, i) == [addr |-> addr, idx |-> i]

ResolvedTrace(t) ==
  [addr |-> t.addr, idx |-> t.idx, object_filename |-> "",
   object_function |-> "", source |-> SourceLoc, inliners |-> <<>>]

(***************************************************************************)
(* The files on disk, as the calls of load_object_with_dwarf see them.     *)
(* Each field is the outcome of one library call on the file.              *)
(***************************************************************************)
Sym(value, type, name) == [value |-> value, type |-> type, name |-> name]

Section(name, type, link, syms, data) ==
  [getshdr |-> TRUE, strptr |-> TRUE, name |-> name, type |-> type,
   link |-> link, syms |-> syms, data |-> data]

Line(addr, file, line, col) ==
  [addr |-> addr, file |-> file, line |-> line, col |-> col]

\* A debug information entry as the walks read it: its tag, DW_AT_name,
\* DW_AT_low_pc and DW_AT_high_pc, its children, DW_AT_declaration,
\* whether dwarf_siblingof can read the entry after it, DW_AT_call_file,
\* DW_AT_call_line and DW_AT_call_column, the type entry DW_AT_type refers
\* to (0 when the attribute is absent), DW_AT_artificial and
\* DW_AT_linkage_name.
Die(tag, name, low_pc, high_pc, children) ==
  [tag |-> tag, name |-> name, low_pc |-> low_pc, high_pc |-> high_pc,
   children |-> children, declaration |-> FALSE, sibling_ok |-> TRUE,
   call_file |-> "", call_line |-> 0, call_column |-> 0, type |-> 0,
   artificial |-> FALSE, linkage_name |-> ""]

Func(name, low_pc, high_pc) ==
  Die("DW_TAG_subprogram", name, low_pc, high_pc, <<>>)

Function(name, type, low_pc, high_pc, children) ==
  [Die("DW_TAG_subprogram", name, low_pc, high_pc, children)
     EXCEPT !.type = type]

Inlined(name, low_pc, high_pc, file, line, children) ==
  [Die("DW_TAG_inlined_subroutine", name, low_pc, high_pc, children)
     EXCEPT !.call_file = file, !.call_line = line]

Parameter(name, type) ==
  [Die("DW_TAG_formal_parameter", name, 0, 0, <<>>) EXCEPT !.type = type]

Namespace(name, children) == Die("DW_TAG_namespace", name, 0, 0, children)

Declaration(d) == [d EXCEPT !.declaration = TRUE]

Unreadable(d) == [d EXCEPT !.sibling_ok = FALSE]

\* The type entries of the fixture objects, by offset: int, char,
\* const char, const char *, class MyClass, MyClass &, the typedef u32 of
\* int, const u32, and a pointer without DW_AT_type (void *).
TypeDie(tag, name, type) == [tag |-> tag, name |-> name, type |-> type]

TypeDies ==
  <<TypeDie("DW_TAG_base_type", "int", 0),
    TypeDie("DW_TAG_base_type", "char", 0),
    TypeDie("DW_TAG_const_type", "", 2),
    TypeDie("DW_TAG_pointer_type", "", 3),
    TypeDie("DW_TAG_class_type", "MyClass", 0),
    TypeDie("DW_TAG_reference_type", "", 5),
    TypeDie("DW_TAG_typedef", "u32", 1),
    TypeDie("DW_TAG_const_type", "", 7),
    TypeDie("DW_TAG_pointer_type", "", 0)>>

Unit(offset, low_pc, high_pc, lines, funcs) ==
  [offset |-> offset, low_pc |-> low_pc, high_pc |-> high_pc,
   lines |-> lines, funcs |-> funcs]

NoFile ==
  [open |-> FALSE, elf_begin |-> FALSE, getident |-> FALSE,
   getshdrnum |-> FALSE, getshdrstrndx |-> FALSE, class |-> 0,
   sections |-> <<>>, dwarf_init |-> FALSE, units |-> <<>>]

\* An executable with a static symbol table and full debug information.
ExeFile ==
  [open |-> TRUE, elf_begin |-> TRUE, getident |-> TRUE,
   getshdrnum |-> TRUE, getshdrstrndx |-> TRUE, class |-> 64,
   sections |->
     << Section(".text", "SHT_PROGBITS", 0, <<>>, ""),
        Section(".dynsym", "SHT_DYNSYM", 3, <<Sym(1, "STT_FUNC", "dyn_main")>>, ""),
        Section(".symtab", "SHT_SYMTAB", 4,
                << Sym(0, "STT_FUNC", "undef"), Sym(1, "STT_FUNC", "main"),
                   Sym(2, "STT_OBJECT", "table"), Sym(3, "STT_FUNC", "_Z6helperv") >>,
                "") >>,
   dwarf_init |-> TRUE,
   units |->
     << Unit(11, 1, 3,
             << Line(1, "main.c", 10, 1), Line(2, "main.c", 11, 5),
                Line(2, "main.c", 12, 1) >>,
             << Func("main", 1, 3) >>),
        Unit(57, 0, 0,
             << Line(4, "helper.c", 7, 3) >>,
             << Func("helper", 3, 5) >>) >>]

\* A stripped library: a dynamic symbol table, no debug sections.
StrippedFile ==
  [ExeFile EXCEPT
     !.sections = << Section(".dynsym", "SHT_DYNSYM", 2,
                             <<Sym(1, "STT_FUNC", "strip_fn")>>, "") >>,
     !.dwarf_init = FALSE, !.units = <<>>]

\* A library whose debug information lives in a separate file.
LinkedFile ==
  [StrippedFile EXCEPT
     !.sections = << Section(".symtab", "SHT_SYMTAB", 2,
                             <<Sym(1, "STT_FUNC", "linked_fn")>>, ""),
                     Section(".gnu_debuglink", "SHT_PROGBITS", 0, <<>>,
                             "liblinked.debug") >>]

DebugFile ==
  [ExeFile EXCEPT
     !.sections = << Section(".symtab", "SHT_SYMTAB", 2,
                             <<Sym(1, "STT_FUNC", "debug_fn")>>, "") >>,
     !.units = << Unit(11, 1, 3, << Line(1, "linked.c", 4, 2) >>,
                       << Func("linked_fn", 1, 3) >>) >>]

\* A library with debug information for inlined calls:
\*   namespace ns { int outer(const char *s, MyClass &c,
\*                            const u32 n) }                 [1, 9)
\*     with a inlined at inl.c:20 over [2, 8), b inlined into a at
\*     inl.c:30 over [3, 7) and c inlined into b at inl.h:40 over [4, 6);
\*   int foo(const char*, MyClass&)                          [10, 14)
\*   a declaration int proto()
\*   void tail(const u32 n, void *p)                         [14, 18)
\* The first line record of the unit is at 2 and the last at 13.  The
\* second unit has a function and no line records.  The third unit has no
\* address range of its own: namespace deep { nested() } over [36, 38) and
\* flat() over [38, 40).
InlineFile ==
  [ExeFile EXCEPT
     !.sections = << Section(".symtab", "SHT_SYMTAB", 2,
                             << Sym(3, "STT_FUNC", "mid_fn"),
                                Sym(10, "STT_FUNC", "foo") >>, "") >>,
     !.units =
       << Unit(11, 1, 20,
               << Line(2, "inl.c", 5, 1), Line(4, "inl.h", 7, 2),
                  Line(10, "inl.c", 50, 1), Line(13, "inl.c", 53, 1) >>,
               << Namespace("ns",
                    << Function("outer", 1, 1, 9,
                         << Parameter("s", 4), Parameter("c", 6),
                            Parameter("n", 8),
                            Inlined("a", 2, 8, "inl.c", 20,
                              << Inlined("b", 3, 7, "inl.c", 30,
                                   << Inlined("c", 4, 6, "inl.h", 40,
                                              <<>>) >>) >>) >>) >>),
                  Function("foo", 1, 10, 14,
                           << Parameter("", 4), Parameter("", 6) >>),
                  Declaration(Function("proto", 1, 0, 0, <<>>)),
                  Function("tail", 0, 14, 18,
                           << Parameter("n", 8), Parameter("p", 9) >>) >>),
          Unit(90, 30, 35, <<>>, << Func("nolines", 30, 35) >>),
          Unit(130, 0, 0,
               << Line(36, "deep.c", 3, 1), Line(38, "deep.c", 9, 1) >>,
               << Namespace("deep", << Func("nested", 36, 38) >>),
                  Func("flat", 38, 40) >>) >>]

\* The same library with a namespace in front, in which dwarf_siblingof
\* fails on the entry of the nested namespace impl: the entry after impl
\* cannot be read.
BrokenFile ==
  [InlineFile EXCEPT
     !.units[1].funcs =
       << Namespace("detail",
            << Unreadable(Namespace("impl", <<>>)),
               Func("lost", 18, 20) >>) >> \o @]

\* BrokenFile without the entry that cannot be read.
SkippedFile ==
  [InlineFile EXCEPT
     !.units[1].funcs =
       << Namespace("detail", << Namespace("impl", <<>>) >>) >> \o @]

\* Files on which one call of load_object_with_dwarf fails or is skipped.
BadElf == [ExeFile EXCEPT !.elf_begin = FALSE]
NoIdent == [ExeFile EXCEPT !.getident = FALSE]
NoShdrNum == [ExeFile EXCEPT !.getshdrnum = FALSE]
NoShdrStrNdx == [ExeFile EXCEPT !.getshdrstrndx = FALSE]
OtherClass == [ExeFile EXCEPT !.class = 0]
BadSectionHeader == [ExeFile EXCEPT !.sections[2].getshdr = FALSE]
BadSectionName == [ExeFile EXCEPT !.sections[3].strptr = FALSE]

\* The executable with its section headers in another order, and with a
\* second name for the address of main in the static symbol table.
SectionOrders ==
  {o \in [1..3 -> 1..3] : \A i, j \in 1..3 : i # j => o[i] # o[j]}

Reordered(f, o) == [f EXCEPT !.sections = [k \in 1..3 |-> @[o[k]]]]

AliasFile ==
  [ExeFile EXCEPT
     !.sections[3].syms = @ \o <<Sym(1, "STT_FUNC", "main_alias")>>]

ExeKinds ==
  {NoFile, BadElf, NoIdent, NoShdrNum, NoShdrStrNdx, OtherClass,
   BadSectionHeader, BadSectionName, StrippedFile, ExeFile, AliasFile}
  \cup {Reordered(ExeFile, o) : o \in SectionOrders}

DebugKinds == {NoFile, BadElf, StrippedFile, DebugFile}

\* The path the executable was started with and the target of
\* /proc/self/exe (TraceResolverLinuxBase).
argv0_ == "app"
exec_path_ == "/usr/bin/app"

FixtureDisk ==
  [p \in {"/proc/self/exe", "libstripped.so", "liblinked.so",
          "liblinked.debug", "libinline.so", "libbroken.so"} |->
     CASE p = "/proc/self/exe" -> ExeFile
       [] p = "libstripped.so" -> StrippedFile
       [] p = "libinline.so" -> InlineFile
       [] p = "libbroken.so" -> BrokenFile
       [] p = "liblinked.so" -> LinkedFile
       [] OTHER -> DebugFile]

\* The disks the loader is run against: every kind of executable, the
\* library with a debug link present or missing, every kind of debug file.
Disks ==
  {[p \in DOMAIN FixtureDisk |->
      CASE p = "/proc/self/exe" -> e
        [] p = "liblinked.so" -> l
        [] p = "liblinked.debug" -> d
        [] OTHER -> FixtureDisk[p]] :
     e \in ExeKinds, l \in {LinkedFile, NoFile}, d \in DebugKinds}

FileAt(dsk, path) == IF path \in DOMAIN dsk THEN dsk[path] ELSE NoFile

(***************************************************************************)
(* dladdr1: the loaded object that contains a runtime address, the name of *)
(* the nearest dynamic symbol, and the load bias link_map->l_addr.         *)
(***************************************************************************)
DlInfo(ok, fname, sname, l_addr) ==
  [ok |-> ok, dli_fname |-> fname, dli_sname |-> sname, l_addr |-> l_addr]

dladdr1(addr) ==
  CASE addr \in 11..15 -> DlInfo(TRUE, argv0_, "", 10)
    [] addr \in 21..25 -> DlInfo(TRUE, "libstripped.so", "", 20)
    [] addr = 26 -> DlInfo(TRUE, "libstripped.so", "strip_fn", 20)
    [] addr \in 31..35 -> DlInfo(TRUE, "libgone.so", "gone_fn", 30)
    [] addr \in 41..45 -> DlInfo(TRUE, "liblinked.so", "", 40)
    [] addr \in 51..89 -> DlInfo(TRUE, "libinline.so", "", 50)
    [] addr \in 101..139 -> DlInfo(TRUE, "libbroken.so", "", 100)
    [] OTHER -> DlInfo(FALSE, "<uninit>", "<uninit>", 0)

\* abi::__cxa_demangle where it knows the name, else the input unchanged.
demangle(funcname) ==
  IF funcname = "_Z6helperv" THEN "helper()" ELSE funcname

resolve_exec_path(info) ==
  IF info.dli_fname = argv0_
    THEN [display |-> exec_path_, dli_fname |-> "/proc/self/exe"]
    ELSE [display |-> info.dli_fname, dli_fname |-> info.dli_fname]

(***************************************************************************)
(* Object File Loader: load_object_with_dwarf.                             *)
(***************************************************************************)
EmptyFobj ==
  [file_handle |-> None, elf_handle |-> None, dwarf_handle |-> None,
   symbol_cache |-> EmptyMap, die_cache |-> EmptyMap, current_cu |-> 0]

NoScan ==
  [failed |-> FALSE, debuglink |-> "", symbol_section |-> 0,
   symbol_count |-> 0, symbol_strings |-> 0]

\* The while loop of ELF_GET_DATA over the section headers.
RECURSIVE ScanSections(_, _, _)
TakesDynsym_always(st) == TRUE

TakesDynsym(st) == st.symbol_section = 0

ScanSections(secs, i, st) ==
  IF i > Len(secs) THEN st
  ELSE LET s == secs[i] IN
    IF ~s.getshdr \/ ~s.strptr THEN [st EXCEPT !.failed = TRUE]
    ELSE
      LET st1 == IF s.name = ".gnu_debuglink" /\ s.data # ""
                   THEN [st EXCEPT !.debuglink = s.data] ELSE st
          take == [st1 EXCEPT !.symbol_section = i,
                              !.symbol_count = Len(s.syms),
                              !.symbol_strings = s.link]
          st2 == CASE s.type = "SHT_SYMTAB" -> take
                   [] s.type = "SHT_DYNSYM" /\ TakesDynsym(st1) -> take
                   [] OTHER -> st1
      IN ScanSections(secs, i + 1, st2)

\* The for loop of ELF_GET_DATA over the entries of the chosen section.
RECURSIVE LoadSymbols(_, _, _)
LoadSymbols(syms, i, cache) ==
  IF i > Len(syms) THEN cache
  ELSE LET s == syms[i] IN
    LoadSymbols(syms, i + 1,
                IF s.type = "STT_FUNC" /\ s.value > 0
                  THEN MapPut(cache, s.value, s.name) ELSE cache)

ELF_GET_DATA(f) ==
  LET st == ScanSections(f.sections, 1, NoScan) IN
  [failed |-> st.failed, debuglink |-> st.debuglink,
   symbol_cache |->
     IF ~st.failed /\ st.symbol_section # 0 /\ st.symbol_count # 0
        /\ st.symbol_strings # 0
       THEN LoadSymbols(f.sections[st.symbol_section].syms, 1, EmptyMap)
       ELSE EmptyMap]

LoadResult(fobj, opened, parsed) ==
  [fobj |-> fobj, opened |-> opened, parsed |-> parsed]

\* The part of load_object_with_dwarf after the cache miss: the entry that
\* ends up in the map, and the open() and elf_begin() calls made on the way.
\* The debug-link file replaces the handles of the object when it can be
\* opened and elf_begin gives a handle for it.
UseLink_never(g) == FALSE

UseLink(g) == g.open /\ g.elf_begin

LoadFresh(dsk, path) ==
  LET f == FileAt(dsk, path) IN
  IF ~f.open THEN LoadResult(EmptyFobj, <<path>>, <<>>)
  ELSE IF ~f.elf_begin \/ ~f.getident \/ ~f.getshdrnum \/ ~f.getshdrstrndx
    THEN LoadResult(EmptyFobj, <<path>>, <<path>>)
  ELSE
    LET scan == IF f.class \in {32, 64} THEN ELF_GET_DATA(f)
                ELSE [failed |-> FALSE, debuglink |-> "",
                      symbol_cache |-> EmptyMap]
    IN
    IF scan.failed THEN LoadResult(EmptyFobj, <<path>>, <<path>>)
    ELSE
      LET dl == scan.debuglink
          g == FileAt(dsk, dl)
          tryLink == dl # ""
          useLink == tryLink /\ UseLink(g)
          src == IF useLink THEN dl ELSE path
          h == IF useLink THEN g ELSE f
          opened == <<path>> \o (IF tryLink THEN <<dl>> ELSE <<>>)
          parsed == <<path>> \o (IF tryLink /\ g.open THEN <<dl>> ELSE <<>>)
      IN
      IF ~h.dwarf_init
        THEN LoadResult([EmptyFobj EXCEPT !.symbol_cache = scan.symbol_cache],
                        opened, parsed)
        ELSE LoadResult([file_handle |-> src, elf_handle |-> src,
                         dwarf_handle |-> src,
                         symbol_cache |-> scan.symbol_cache,
                         die_cache |-> EmptyMap, current_cu |-> 0],
                        opened, parsed)

\* _fobj_dwarf_map[filename_object]: the entry the loader fills stays in
\* the map.
StoreEntry_dropped(map, path, fobj) == map

StoreEntry(map, path, fobj) == MapPut(map, path, fobj)

\* The find() at the head of load_object_with_dwarf.
CacheHit_never(map, path) == FALSE

CacheHit(map, path) == path \in DOMAIN map

\* load_object_with_dwarf: the entry of the map it returns a reference to,
\* whether it was found in the map, and the open() and elf_begin() calls.
load_object_with_dwarf(map, dsk, path) ==
  IF CacheHit(map, path)
    THEN [fobj |-> map[path], hit |-> TRUE, opened |-> <<>>, parsed |-> <<>>]
    ELSE [hit |-> FALSE] @@ LoadFresh(dsk, path)

(***************************************************************************)
(* libdwarf backend: TraceResolverLinuxImpl<libdwarf>::resolve.            *)
(***************************************************************************)
End == -1

SetMin(S) == CHOOSE x \in S : \A y \in S : x <= y
SetMax(S) == CHOOSE x \in S : \A y \in S : y <= x

\* std::map::lower_bound: the first key not less than k, or end().
lower_bound(m, k) ==
  LET S == {x \in DOMAIN m : x >= k} IN IF S = {} THEN End ELSE SetMin(S)

\* --it on an iterator that is not begin(): the greatest key below it.
Decrement_begin(m, it) == SetMin(DOMAIN m)

Decrement(m, it) == SetMax({x \in DOMAIN m : x < it})

MapBegin(m) == SetMin(DOMAIN m)

\* The symbol_cache lookup that fills an empty object_function.
SymbolLookup(cache, address) ==
  LET it == lower_bound(cache, address) IN
  IF it = End THEN ""
  ELSE IF it # address /\ it # MapBegin(cache)
         THEN demangle(cache[Decrement(cache, it)])
         ELSE demangle(cache[it])

\* die_has_pc on a node that carries DW_AT_low_pc and DW_AT_high_pc; a node
\* without them (0, 0) and without ranges or references matches nothing.
RangeHasPc(d, a) == d.high_pc # 0 /\ a >= d.low_pc /\ a < d.high_pc

\* The index at which a loop over a list stops: the first of the matching
\* indices, 0 when the loop runs to the end.
FirstIndex(S) == IF S = {} THEN 0 ELSE SetMin(S)

\* The one element of a singleton set; it binds an intermediate result.
Pick(S) == CHOOSE x \in S : TRUE

\* find_fundie_by_pc over the entries from the i-th child of a parent on:
\* TRUE when it returns an entry, FALSE when it returns NULL. A match
\* below the first level is stored in the by-value parameter result and
\* the caller gets the empty die_mem back.
RECURSIVE find_fundie_by_pc(_, _, _)
find_fundie_by_pc(dies, i, a) ==
  IF i > Len(dies) THEN FALSE
  ELSE IF /\ dies[i].tag \in {"DW_TAG_subprogram",
                               "DW_TAG_inlined_subroutine"}
          /\ RangeHasPc(dies[i], a)
         THEN TRUE
  ELSE IF ~dies[i].declaration /\ find_fundie_by_pc(dies[i].children, 1, a)
         THEN FALSE
  ELSE IF ~dies[i].sibling_ok THEN FALSE
  ELSE find_fundie_by_pc(dies, i + 1, a)

\* find_die without a .debug_aranges section: the scan of the unit ranges,
\* then the scan of the function trees. The result is an index into the
\* units of the object, 0 for NULL.
find_die(units, a) ==
  LET byUnit == FirstIndex({i \in 1..Len(units) : RangeHasPc(units[i], a)})
      byFunc == FirstIndex({i \in 1..Len(units) :
                  find_fundie_by_pc(units[i].funcs, 1, a)})
  IN IF byUnit # 0 THEN byUnit ELSE byFunc

\* A node on which dwarf_lowpc fails and which has no DW_AT_ranges:
\* die_has_pc asks get_spec_die for it.
NoRange(d) == d.low_pc = 0 /\ d.high_pc = 0

\* if (fobj.current_cu && ...): get_spec_die looks the node up in the
\* spec_section current_cu points to.  One lookup: the unit of the node
\* and the unit of the map.
Consult(fobj, unit) ==
  IF fobj.current_cu = 0 THEN {} ELSE {<<unit.offset, fobj.current_cu>>}

\* Whether find_fundie_by_pc, from the i-th child of a parent on, hands
\* die_has_pc a function entry without a range.
RECURSIVE FundieAsksSpec(_, _, _)
FundieAsksSpec(dies, i, a) ==
  IF i > Len(dies) THEN FALSE
  ELSE IF /\ dies[i].tag \in {"DW_TAG_subprogram",
                               "DW_TAG_inlined_subroutine"}
          /\ RangeHasPc(dies[i], a)
         THEN FALSE
  ELSE \/ /\ dies[i].tag \in {"DW_TAG_subprogram",
                               "DW_TAG_inlined_subroutine"}
          /\ NoRange(dies[i])
       \/ /\ ~dies[i].declaration
          /\ FundieAsksSpec(dies[i].children, 1, a)
       \/ /\ ~(~dies[i].declaration
               /\ find_fundie_by_pc(dies[i].children, 1, a))
          /\ dies[i].sibling_ok
          /\ FundieAsksSpec(dies, i + 1, a)

\* The lookups of one find_die: those of die_has_pc on the unit entries
\* the first scan visits, and those of the function-tree scan when the
\* first scan finds nothing.  fobj.current_cu is what the last
\* get_die_cache left.
FindDieConsults(fobj, units, a) ==
  LET byUnit == FirstIndex({i \in 1..Len(units) : RangeHasPc(units[i], a)})
      byFunc == FirstIndex({i \in 1..Len(units) :
                  find_fundie_by_pc(units[i].funcs, 1, a)})
      first == 1..(IF byUnit # 0 THEN byUnit ELSE Len(units))
      second == IF byUnit # 0 THEN {}
                ELSE 1..(IF byFunc # 0 THEN byFunc ELSE Len(units))
  IN UNION ({Consult(fobj, units[i]) : i \in {j \in first : NoRange(units[j])}}
            \cup {Consult(fobj, units[i]) :
                    i \in {j \in second :
                             FundieAsksSpec(units[j].funcs, 1, a)}})

\* The lookups after get_die_cache: die_has_pc on the first entry of the
\* unit when it has no range, and set_function_parameters, which asks
\* get_spec_die for every function the callback names.
WalkConsults(fobj, unit, trace) ==
  IF \/ trace.source.function # ""
     \/ trace.inliners # <<>>
     \/ (unit.funcs # <<>> /\ NoRange(unit.funcs[1]))
    THEN Consult(fobj, unit) ELSE {}

\* type_context_t as set_function_parameters constructs it.
type_context_t ==
  [is_const |-> FALSE, is_typedef |-> FALSE, has_type |-> FALSE,
   has_name |-> FALSE, text |-> ""]

Keywords ==
  {"DW_TAG_structure_type", "DW_TAG_union_type", "DW_TAG_class_type",
   "DW_TAG_enumeration_type", "DW_TAG_const_type", "DW_TAG_pointer_type",
   "DW_TAG_reference_type", "DW_TAG_restrict_type",
   "DW_TAG_rvalue_reference_type", "DW_TAG_volatile_type",
   "DW_TAG_typedef", "DW_TAG_base_type", "DW_TAG_formal_parameter"}

\* set_parameter_string up to the read of DW_AT_type: the name or the
\* typedef bookkeeping, the switch on the tag (no entry of the fixtures
\* has DW_AT_signature), the const of a tag outside the switch, and
\* is_const = next_type_is_const.
ParameterHead(d, c) ==
  LET c1 == IF ~c.is_typedef
              THEN IF d.name # ""
                     THEN [c EXCEPT !.text =
                             d.name \o (IF c.text # "" THEN " " \o c.text
                                        ELSE "")]
                     ELSE c
              ELSE [c EXCEPT !.is_typedef = FALSE, !.has_type = TRUE,
                             !.is_const = FALSE,
                             !.text = IF c.is_const THEN "const " \o @
                                      ELSE @]
      next_type_is_const ==
        CASE d.tag = "DW_TAG_const_type" -> TRUE
          [] d.tag = "DW_TAG_typedef" -> c1.is_const
          [] OTHER -> FALSE
      c2 ==
        CASE d.tag \in {"DW_TAG_structure_type", "DW_TAG_union_type",
                        "DW_TAG_class_type"} ->
               [c1 EXCEPT !.has_type = TRUE, !.is_typedef = FALSE]
          [] d.tag = "DW_TAG_enumeration_type" ->
               [c1 EXCEPT !.has_type = TRUE, !.is_typedef = TRUE]
          [] d.tag = "DW_TAG_pointer_type" -> [c1 EXCEPT !.text = "*" \o @]
          [] d.tag = "DW_TAG_reference_type" -> [c1 EXCEPT !.text = "&" \o @]
          [] d.tag = "DW_TAG_restrict_type" ->
               [c1 EXCEPT !.text = "restrict " \o @]
          [] d.tag = "DW_TAG_rvalue_reference_type" ->
               [c1 EXCEPT !.text = "&&" \o @]
          [] d.tag = "DW_TAG_volatile_type" ->
               [c1 EXCEPT !.text = "volatile " \o @]
          [] d.tag = "DW_TAG_typedef" ->
               [c1 EXCEPT !.is_typedef = TRUE, !.has_type = TRUE]
          [] d.tag = "DW_TAG_base_type" -> [c1 EXCEPT !.has_type = TRUE]
          [] d.tag = "DW_TAG_formal_parameter" ->
               [c1 EXCEPT !.has_name = TRUE]
          [] OTHER -> c1
  IN [c2 EXCEPT !.text = IF d.tag \notin Keywords /\ c2.is_const
                           THEN "const " \o @ ELSE @,
                !.is_const = next_type_is_const]

\* The end of set_parameter_string: a named parameter without a type
\* entry is a void.
ParameterTail(c) ==
  IF ~c.has_type /\ c.has_name
    THEN [c EXCEPT !.text = "void " \o @, !.has_type = TRUE]
    ELSE c

\* set_parameter_string as a function of the entry and the context; it
\* follows DW_AT_type through the type entries.
RECURSIVE parameter_string(_, _)
parameter_string(d, c) ==
  Pick({ IF d.type # 0
           THEN Pick({ ParameterTail(c5) :
                       c5 \in {parameter_string(TypeDies[d.type], c4)} })
           ELSE ParameterTail(c4) :
         c4 \in {ParameterHead(d, c)} })

\* get_referenced_die_name(dwarf, die, DW_AT_type, true)
ReferencedTypeName(d) == IF d.type = 0 THEN "" ELSE TypeDies[d.type].name

\* The loop of set_function_parameters over the children of the entry.
RECURSIVE ParameterList(_, _, _)
ParameterList(dies, i, parameters) ==
  IF i > Len(dies) THEN parameters
  ELSE
    Pick({ IF ~dies[i].sibling_ok THEN p
           ELSE ParameterList(dies, i + 1, p) :
           p \in { IF /\ dies[i].tag = "DW_TAG_formal_parameter"
                      /\ ~dies[i].artificial
                     THEN (IF parameters = "" THEN "(" ELSE parameters \o ", ")
                          \o parameter_string(dies[i], type_context_t).text
                     ELSE parameters } })

RECURSIVE JoinNs(_, _)
JoinNs(ns, i) ==
  IF i > Len(ns) THEN "" ELSE ns[i] \o "::" \o JoinNs(ns, i + 1)

\* set_function_parameters of an entry that has no specification entry.
set_function_parameters(function_name, ns, d) ==
  LET qualified == JoinNs(ns, 1) \o function_name
      return_type == ReferencedTypeName(d)
      parameters == ParameterList(d.children, 1, "")
  IN (IF return_type # "" THEN return_type \o " " ELSE "")
     \o qualified
     \o (IF parameters = "" THEN "(" ELSE parameters) \o ")"

\* The sloc inliners_search_cb fills for an inlined call: the name of the
\* inlined function and the place of the call.
InlinedLoc(d, ns) ==
  [function |-> set_function_parameters(d.name, ns, d),
   filename |-> d.call_file, line |-> d.call_line, col |-> d.call_column]

\* trace.inliners.push_back(sloc)
push_back_front(inliners, sloc) == <<sloc>> \o inliners

push_back(inliners, sloc) == Append(inliners, sloc)

\* inliners_search_cb::operator() on an entry, given the trace and the
\* namespace stack in st.
inliners_search_cb(d, st) ==
  CASE d.tag = "DW_TAG_subprogram" ->
         IF st.trace.source.function # "" THEN st
         ELSE [st EXCEPT
                 !.trace.source.function =
                   set_function_parameters(d.name, st.ns, d),
                 !.trace.object_function =
                   IF @ = "" /\ d.linkage_name # ""
                     THEN demangle(d.linkage_name) ELSE @]
    [] d.tag = "DW_TAG_inlined_subroutine" ->
         [st EXCEPT !.trace.inliners = push_back(@, InlinedLoc(d, st.ns))]
    [] OTHER -> st

HasNamespace(d) == d.tag \in {"DW_TAG_namespace", "DW_TAG_class_type"}

\* if (!branch_has_pc) branch_has_pc = die_has_pc(...)
BranchHasPc_always(branch_has_pc, d, a) == TRUE

BranchHasPc(branch_has_pc, d, a) == branch_has_pc \/ RangeHasPc(d, a)

\* What dwarf_siblingof returning DW_DLV_ERROR does to the walk of one
\* level: return false, with the namespace stack as it is.
SiblingError(st) == [st EXCEPT !.branch_has_pc = FALSE]

PopNs(d, st) ==
  IF HasNamespace(d) THEN [st EXCEPT !.ns = SubSeq(@, 1, Len(@) - 1)]
  ELSE st

\* Counts of the Dwarf_Die handles a call obtained from find_die,
\* dwarf_child and dwarf_siblingof, and of those it gave to dwarf_dealloc.
NoHandles == [obtained |-> 0, released |-> 0]

Obtained(h) == [h EXCEPT !.obtained = @ + 1]

Released(h) == [h EXCEPT !.released = @ + 1]

\* deep_first_search_by_pc with inliners_search_cb, over the entries from
\* the i-th child of a parent on. st holds branch_has_pc, the trace the
\* callback writes, the namespace stack and the counts of handles; the
\* result holds the value returned, the trace, the stack and the counts on
\* return.
RECURSIVE deep_first_search_by_pc(_, _, _, _)
deep_first_search_by_pc(dies, i, a, st) ==
  IF Len(dies) = 0 THEN [st EXCEPT !.branch_has_pc = FALSE]
  ELSE
    Pick({
      Pick({
        IF ~dies[i].sibling_ok THEN SiblingError(s3)
        ELSE IF i = Len(dies) THEN PopNs(dies[i], s3)
        ELSE deep_first_search_by_pc(dies, i + 1, a,
                                     Released(PopNs(dies[i], s3))) :
        s3 \in { IF BranchHasPc(s1.branch_has_pc, dies[i], a)
                   THEN inliners_search_cb(dies[i],
                                           [s1 EXCEPT !.branch_has_pc = TRUE])
                   ELSE s1 } }) :
      s1 \in {
        Pick({ IF dies[i].tag # "DW_TAG_class_type" /\ dies[i].declaration
                 THEN s0
                 ELSE deep_first_search_by_pc(
                        dies[i].children, 1, a,
                        [s0 EXCEPT !.branch_has_pc = FALSE]) :
               s0 \in { IF HasNamespace(dies[i])
                          THEN [Obtained(st) EXCEPT
                                  !.ns = Append(@, IF dies[i].name # ""
                                                     THEN dies[i].name
                                                     ELSE "<unknown>")]
                          ELSE Obtained(st) } }) } })

\* The line_section index get_die_cache builds: insert keeps the first
\* line of an address.
RECURSIVE LineSection(_, _, _)
LineSection(lines, i, m) ==
  IF i > Len(lines) THEN m
  ELSE LineSection(lines, i + 1, MapInsert(m, lines[i].addr, i))

NewDieCacheEntry(unit) ==
  [line_section |-> LineSection(unit.lines, 1, EmptyMap),
   line_count |-> Len(unit.lines), spec_section |-> EmptyMap]

\* it != fobj.die_cache.end(): the unit has an entry.
DieCached_never(fobj, unit) == FALSE

DieCached(fobj, unit) == unit.offset \in DOMAIN fobj.die_cache

get_die_cache(fobj, unit) ==
  IF DieCached(fobj, unit)
    THEN [fobj EXCEPT !.current_cu = unit.offset]
    ELSE [fobj EXCEPT !.current_cu = unit.offset,
                      !.die_cache = MapPut(@, unit.offset,
                                           NewDieCacheEntry(unit))]

isEmpty(de) == de.line_count = 0 \/ DOMAIN de.line_section = {}

\* The line_section lookup of resolve: the index of the line record, or 0
\* when resolve gives up.
LineLookup_begin(de, address) == de.line_section[MapBegin(de.line_section)]

LineLookup(de, address) ==
  LET it == lower_bound(de.line_section, address) IN
  IF it = End THEN 0
  ELSE IF it # address
         THEN IF it = MapBegin(de.line_section) THEN 0
              ELSE de.line_section[Decrement(de.line_section, it)]
         ELSE de.line_section[it]

\* The part of resolve after a successful load_object_with_dwarf.
ResolveInObject(trace, fobj, file, address) ==
  LET t1 == IF trace.object_function = ""
              THEN [trace EXCEPT !.object_function =
                                   SymbolLookup(fobj.symbol_cache, address)]
              ELSE trace
      u == find_die(file.units, address)
  IN
  IF u = 0 THEN [trace |-> t1, fobj |-> fobj, built |-> <<>>,
                 handles |-> NoHandles, ns |-> <<>>,
                 consulted |-> FindDieConsults(fobj, file.units, address)]
  ELSE
    LET unit == file.units[u]
        f1 == get_die_cache(fobj, unit)
        de == f1.die_cache[unit.offset]
        l == IF isEmpty(de) THEN 0 ELSE LineLookup(de, address)
        built == IF DieCached(fobj, unit) THEN <<>> ELSE <<unit.offset>>
    IN
    IF l = 0 THEN [trace |-> t1, fobj |-> f1, built |-> built,
                   handles |-> Obtained(NoHandles), ns |-> <<>>,
                   consulted |-> FindDieConsults(fobj, file.units, address)]
    ELSE
      Pick({ [trace |-> st.trace, fobj |-> f1, built |-> built,
              handles |-> Released([obtained |-> st.obtained,
                                    released |-> st.released]),
              ns |-> <<st.ns>>,
              consulted |->
                FindDieConsults(fobj, file.units, address)
                \cup WalkConsults(f1, unit, st.trace)] :
             st \in { deep_first_search_by_pc(
                        unit.funcs, 1, address,
                        [branch_has_pc |-> FALSE, ns |-> <<>>,
                         obtained |-> 1, released |-> 0,
                         trace |->
                           [t1 EXCEPT !.source =
                              [filename |-> unit.lines[l].file,
                               function |-> "",
                               line |-> unit.lines[l].line,
                               col |-> unit.lines[l].col]]]) } })

\* if (!fobj.dwarf_handle): the object could not be loaded.
LoadFailed_ignored(fobj) == FALSE

LoadFailed(fobj) == fobj.dwarf_handle = None

\* if (!dladdr_result): symbol_info was not filled in.
DladdrFailed_ignored(info) == FALSE

DladdrFailed(info) == ~info.ok

(***************************************************************************)
(* backtrace_symbol backend: TraceResolverLinuxImpl<backtrace_symbol>.     *)
(***************************************************************************)
\* backtrace_symbols: one "object(function+offset) [address]" entry per
\* address of the batch, in batch order; the entry is kept split in its
\* object, function and address parts.
backtrace_symbol_of(addr) ==
  LET info == dladdr1(addr) IN
  [object |-> IF info.ok THEN info.dli_fname ELSE "[address]",
   function |-> IF info.ok THEN info.dli_sname ELSE "",
   paren |-> info.ok, addr |-> addr]

backtrace_symbols(addresses) ==
  [i \in 1..Len(addresses) |-> backtrace_symbol_of(addresses[i])]

\* load_addresses: an empty batch leaves _symbols as it was.
symbol_load_addresses(old, addresses) ==
  IF Len(addresses) = 0 THEN old ELSE backtrace_symbols(addresses)

\* resolve: reads _symbols[trace.idx] and splits it at '(' and ')' or '+'.
symbol_resolve(trace, syms) ==
  LET e == syms[trace.idx + 1]
      t1 == [trace EXCEPT !.object_filename = e.object]
  IN IF e.paren
       THEN [t1 EXCEPT !.object_function = demangle(e.function),
                       !.source.function = demangle(e.function)]
       ELSE t1

(***************************************************************************)
(* The facade: resolve(alloc, addresses).                                  *)
(***************************************************************************)
Addresses == {1, 11, 12, 21}

\* The addresses one run of the process captures.
Pools == {{1, 11}, {11, 12}, {12, 21}}

\* One or two addresses of every loaded object.
ObjectAddresses == {11, 12, 21, 31, 41}

\* The addresses of the runs that are checked for progress.
FairAddresses == {1, 11}

Batches(S) == UNION {[1..n -> S] : n \in 0..MaxBatch}

Backends == {"libdwarf", "backtrace_symbol"}

\* std::vector<SourceLoc> ret(addresses.size())
NewRet(n) == [i \in 1..n |-> SourceLoc]

\* std::lock_guard lock(mutex): the constructor returns once the mutex is
\* free, the destructor releases it.
CanLock_unguarded(m) == TRUE

CanLock(m) == m = None

Unlock_kept(m) == m

Unlock(m) == None

\* it == locs.end() after locs.find(addr)
CacheMiss_always(l, addr) == TRUE

CacheMiss(l, addr) == addr \notin DOMAIN l

\* locs.emplace(addr, res.source)
emplace_cleared(l, addr, source) == [x \in {addr} |-> source]

emplace(l, addr, source) == MapInsert(l, addr, source)

\* ResolvedTrace(Trace(addr, i))
MakeTrace_first(addr, i) == ResolvedTrace(Trace(addr, 0))

MakeTrace(addr, i) == ResolvedTrace(Trace(addr, i))

\* ret[i] = it->second
AssignRet_first(r, i, v) == [r EXCEPT ![1] = v]

AssignRet(r, i, v) == [r EXCEPT ![i + 1] = v]

Bump(m, k, n) == MapPut(m, k, (IF k \in DOMAIN m THEN m[k] ELSE 0) + n)

\* resolve hands the trace back to the thread that called it.
Resolved(t, trace, path, hit, opened) ==
  /\ pending' = [pending EXCEPT ![t] = trace.source]
  /\ resolved' = MapPut(resolved, trace.addr, trace.source)
  /\ loadLog' = MapPut(loadLog, trace.addr,
                       [path |-> path, hit |-> hit, opened |-> opened,
                        object_function |-> trace.object_function,
                        source |-> trace.source,
                        inliners |-> trace.inliners])

\* TraceResolverLinuxImpl<libdwarf>::resolve(trace), called by thread t.
dwarf_resolve(t, trace) ==
  \E info \in {dladdr1(trace.addr)} :
    IF DladdrFailed(info)
      THEN /\ Resolved(t, trace, None, FALSE, <<>>)
           /\ UNCHANGED <<dwarf_loaded, fobj_dwarf_map, openCount,
                          parseCount, buildCount, handles,
                          consulted, namespace_stack>>
      ELSE
        \E t1 \in {IF info.dli_sname # ""
                     THEN [trace EXCEPT !.object_function =
                                          demangle(info.dli_sname)]
                     ELSE trace} :
          IF info.dli_fname = ""
            THEN /\ Resolved(t, t1, None, FALSE, <<>>)
                 /\ UNCHANGED <<dwarf_loaded, fobj_dwarf_map, openCount,
                                parseCount, buildCount, handles,
                          consulted, namespace_stack>>
            ELSE
              \E ex \in {resolve_exec_path(info)} :
              \E ld \in {load_object_with_dwarf(fobj_dwarf_map, disk,
                                                ex.dli_fname)} :
              \E r \in {IF LoadFailed(ld.fobj)
                           THEN [trace |-> [t1 EXCEPT !.object_filename =
                                                        ex.display],
                                 fobj |-> ld.fobj, built |-> <<>>,
                                 handles |-> NoHandles, consulted |-> {},
                                 ns |-> <<>>]
                           ELSE ResolveInObject(
                                  [t1 EXCEPT !.object_filename = ex.display],
                                  ld.fobj,
                                  FileAt(disk, ld.fobj.dwarf_handle),
                                  trace.addr - info.l_addr)} :
                /\ Resolved(t, r.trace, ex.dli_fname, ld.hit, ld.opened)
                /\ dwarf_loaded' = TRUE
                /\ fobj_dwarf_map' = StoreEntry(fobj_dwarf_map,
                                                ex.dli_fname, r.fobj)
                /\ openCount' = Bump(openCount, ex.dli_fname,
                                     Len(ld.opened))
                /\ parseCount' = Bump(parseCount, ex.dli_fname,
                                      Len(ld.parsed))
                /\ handles' = MapPut(handles, trace.addr, r.handles)
                /\ namespace_stack' =
                     IF r.ns = <<>> THEN namespace_stack
                     ELSE MapPut(namespace_stack, trace.addr, r.ns[1])
                /\ consulted' = consulted \cup
                                  {<<ex.dli_fname, c[1], c[2]>> :
                                     c \in r.consulted}
                /\ buildCount' = IF r.built = <<>> THEN buildCount
                                 ELSE Bump(buildCount,
                                           <<ex.dli_fname, r.built[1]>>, 1)

InitFacade ==
  /\ pc = [t \in Threads |-> "idle"]
  /\ batch = [t \in Threads |-> <<>>]
  /\ idx = [t \in Threads |-> 0]
  /\ ret = [t \in Threads |-> <<>>]
  /\ pending = [t \in Threads |-> SourceLoc]
  /\ mutex = None
  /\ locs = EmptyMap
  /\ calls = 0
  /\ resolveCount = EmptyMap
  /\ resolved = EmptyMap
  /\ returned = EmptyMap
  /\ primed = <<>>
  /\ lastTrace = <<>>

InitBackend ==
  /\ symbols = <<>>
  /\ dwarf_loaded = FALSE
  /\ fobj_dwarf_map = EmptyMap
  /\ openCount = EmptyMap
  /\ parseCount = EmptyMap
  /\ buildCount = EmptyMap
  /\ handles = EmptyMap
  /\ consulted = {}
  /\ namespace_stack = EmptyMap
  /\ loadLog = EmptyMap

InitWalkOff ==
  /\ die = 0
  /\ depth = 0
  /\ walk = "off"
  /\ links = <<>>

InitDetailOff ==
  /\ split = <<>>
  /\ hnd = <<>>
  /\ cu_scan = <<>>

Init ==
  /\ InitFacade
  /\ InitBackend
  /\ InitDetailOff
  /\ InitWalkOff
  /\ backend \in Backends
  /\ disk = FixtureDisk
  /\ pool \in Pools

InitFair ==
  /\ InitFacade
  /\ InitBackend
  /\ InitDetailOff
  /\ InitWalkOff
  /\ backend = "backtrace_symbol"
  /\ disk = FixtureDisk
  /\ pool = FairAddresses

backendVars == <<symbols, dwarf_loaded, fobj_dwarf_map, openCount,
                 parseCount, buildCount, handles, consulted,
    namespace_stack, loadLog>>

\* A thread enters resolve() with a batch: ret is allocated before the
\* lock is taken.
Call(t) ==
  /\ pc[t] \in {"idle", "done"}
  /\ calls < MaxCalls
  /\ \E b \in Batches(pool) :
       /\ batch' = [batch EXCEPT ![t] = b]
       /\ ret' = [ret EXCEPT ![t] = NewRet(Len(b))]
  /\ idx' = [idx EXCEPT ![t] = 0]
  /\ pc' = [pc EXCEPT ![t] = "lock"]
  /\ calls' = calls + 1
  /\ UNCHANGED <<pending, mutex, locs, resolveCount, resolved, returned,
                 primed, lastTrace, backend, disk, pool>>
  /\ UNCHANGED backendVars
  /\ UNCHANGED walkVars
  /\ UNCHANGED detailVars

Lock(t) ==
  /\ pc[t] = "lock"
  /\ CanLock(mutex)
  /\ mutex' = t
  /\ pc' = [pc EXCEPT ![t] = "load"]
  /\ UNCHANGED <<batch, idx, ret, pending, locs, calls, resolveCount,
                 resolved, returned, primed, lastTrace, backend, disk, pool>>
  /\ UNCHANGED backendVars
  /\ UNCHANGED walkVars
  /\ UNCHANGED detailVars

\* resolver.load_addresses(addresses.data(), addresses.size())
LoadAddresses(t) ==
  /\ pc[t] = "load"
  /\ symbols' = IF backend = "backtrace_symbol"
                  THEN symbol_load_addresses(symbols, batch[t])
                  ELSE symbols
  /\ primed' = batch[t]
  /\ pc' = [pc EXCEPT ![t] = "loop"]
  /\ UNCHANGED <<batch, idx, ret, pending, mutex, locs, calls, resolveCount,
                 resolved, returned, lastTrace, backend, disk, pool, dwarf_loaded,
                 fobj_dwarf_map, openCount, parseCount, buildCount, handles, consulted,
    namespace_stack, loadLog>>
  /\ UNCHANGED walkVars
  /\ UNCHANGED detailVars

\* One iteration whose address is in locs: ret[i] = it->second.
CachedStep(t) ==
  /\ pc[t] = "loop"
  /\ idx[t] < Len(batch[t])
  /\ LET addr == batch[t][idx[t] + 1] IN
       /\ ~CacheMiss(locs, addr)
       /\ ret' = [ret EXCEPT ![t] = AssignRet(@, idx[t], locs[addr])]
       /\ returned' = MapPut(returned, addr,
                             (IF addr \in DOMAIN returned
                                THEN returned[addr] ELSE {}) \cup {locs[addr]})
  /\ idx' = [idx EXCEPT ![t] = @ + 1]
  /\ UNCHANGED <<pc, batch, pending, mutex, locs, calls, resolveCount,
                 resolved, primed, lastTrace, backend, disk, pool>>
  /\ UNCHANGED backendVars
  /\ UNCHANGED walkVars
  /\ UNCHANGED detailVars

\* One iteration whose address is not in locs, first half:
\* res = resolver.resolve(ResolvedTrace(Trace(addr, i))).
Resolve(t) ==
  /\ pc[t] = "loop"
  /\ idx[t] < Len(batch[t])
  /\ LET addr == batch[t][idx[t] + 1]
         trace == MakeTrace(addr, idx[t])
     IN
       /\ CacheMiss(locs, addr)
       /\ resolveCount' = Bump(resolveCount, addr, 1)
       /\ lastTrace' = << [addr |-> trace.addr, idx |-> trace.idx,
                           primed |-> primed,
                           entry |-> IF backend = "backtrace_symbol"
                                          /\ trace.idx < Len(symbols)
                                       THEN symbols[trace.idx + 1].addr
                                       ELSE 0] >>
       /\ IF backend = "libdwarf"
            THEN /\ dwarf_resolve(t, trace)
                 /\ UNCHANGED symbols
            ELSE \E r \in {symbol_resolve(trace, symbols)} :
                   /\ Resolved(t, r, None, FALSE, <<>>)
                   /\ UNCHANGED <<symbols, dwarf_loaded, fobj_dwarf_map,
                                  openCount, parseCount, buildCount, handles,
                          consulted, namespace_stack>>
  /\ pc' = [pc EXCEPT ![t] = "emplace"]
  /\ UNCHANGED <<batch, idx, ret, mutex, locs, calls, returned, primed,
                 backend, disk, pool>>
  /\ UNCHANGED walkVars
  /\ UNCHANGED detailVars

\* Second half: it = locs.emplace(addr, res.source).first; ret[i] = it->second.
Emplace(t) ==
  /\ pc[t] = "emplace"
  /\ LET addr == batch[t][idx[t] + 1]
         l == emplace(locs, addr, pending[t])
     IN
       /\ locs' = l
       /\ ret' = [ret EXCEPT ![t] = AssignRet(@, idx[t], l[addr])]
       /\ returned' = MapPut(returned, addr,
                             (IF addr \in DOMAIN returned
                                THEN returned[addr] ELSE {}) \cup {l[addr]})
  /\ idx' = [idx EXCEPT ![t] = @ + 1]
  /\ pc' = [pc EXCEPT ![t] = "loop"]
  /\ UNCHANGED <<batch, pending, mutex, calls, resolveCount, resolved,
                 primed, lastTrace, backend, disk, pool>>
  /\ UNCHANGED backendVars
  /\ UNCHANGED walkVars
  /\ UNCHANGED detailVars

\* return ret: the lock_guard goes out of scope.
Return(t) ==
  /\ pc[t] = "loop"
  /\ idx[t] = Len(batch[t])
  /\ mutex' = Unlock(mutex)
  /\ pc' = [pc EXCEPT ![t] = "done"]
  /\ UNCHANGED <<batch, idx, ret, pending, locs, calls, resolveCount,
                 resolved, returned, primed, lastTrace, backend, disk, pool>>
  /\ UNCHANGED backendVars
  /\ UNCHANGED walkVars
  /\ UNCHANGED detailVars

Next ==
  \E t \in Threads :
    \/ Call(t)
    \/ Lock(t)
    \/ LoadAddresses(t)
    \/ CachedStep(t)
    \/ Resolve(t)
    \/ Emplace(t)
    \/ Return(t)

Spec == Init /\ [][Next]_vars

\* The same program under the scheduling the claims on blocking assume:
\* a thread inside resolve() keeps running, and a thread waiting for the
\* mutex gets it if it is free again and again.
Fairness ==
  \A t \in Threads :
    /\ SF_vars(Lock(t))
    /\ WF_vars(LoadAddresses(t))
    /\ WF_vars(CachedStep(t))
    /\ WF_vars(Resolve(t))
    /\ WF_vars(Emplace(t))
    /\ WF_vars(Return(t))

SpecFair == InitFair /\ [][Next]_vars /\ Fairness

(***************************************************************************)
(* The libdwarf backend on its own: resolver.resolve(trace) called for one *)
(* address after another, against every kind of disk.                      *)
(***************************************************************************)
InitLoad ==
  /\ InitFacade
  /\ InitBackend
  /\ InitDetailOff
  /\ InitWalkOff
  /\ backend = "libdwarf"
  /\ disk \in Disks
  /\ pool = ObjectAddresses

DirectResolve(a) ==
  /\ calls < MaxLoads
  /\ dwarf_resolve("t1", MakeTrace(a, 0))
  /\ calls' = calls + 1
  /\ resolveCount' = Bump(resolveCount, a, 1)
  /\ UNCHANGED <<pc, batch, idx, ret, mutex, locs, returned, primed,
                 lastTrace, backend, disk, pool, symbols>>
  /\ UNCHANGED walkVars
  /\ UNCHANGED detailVars

NextLoad == \E a \in pool : DirectResolve(a)

SpecLoad == InitLoad /\ [][NextLoad]_vars

(***************************************************************************)
(* The libdwarf resolver over the objects with function trees: addresses   *)
(* of the executable, in and around the inlined calls of libinline.so, in  *)
(* the unit without line records, in the stripped library and in           *)
(* libbroken.so.                                                           *)
(***************************************************************************)
TreeAddresses ==
  {11, 12, 21, 26, 51, 52, 54, 55, 60, 62, 65, 69, 81, 86, 88, 104, 110,
   119}

InitTree ==
  /\ InitFacade
  /\ InitBackend
  /\ InitDetailOff
  /\ InitWalkOff
  /\ backend = "libdwarf"
  /\ disk = FixtureDisk
  /\ pool = TreeAddresses

SpecTree == InitTree /\ [][NextLoad]_vars

(***************************************************************************)
(* The recursions of the die walk that follow reference attributes:        *)
(* die_has_pc through get_spec_die, set_parameter_string through           *)
(* DW_AT_type. One action is one call frame; the stack holds MaxDepth      *)
(* frames.                                                                 *)
(***************************************************************************)
Dies == {1, 2}

\* Per DIE: whether it carries DW_AT_low_pc or DW_AT_ranges, the targets of
\* its DW_AT_abstract_origin and DW_AT_type (0: no attribute), and the DIE
\* the spec_section of its unit maps its offset to (0: no entry).
DieTrees ==
  [Dies -> [has_pc : BOOLEAN, abstract_origin : {0} \cup Dies,
            type : {0} \cup Dies, spec : {0} \cup Dies]]

get_referenced_die(l, d, attr) == l.dies[d][attr]

get_spec_die(l, d) ==
  IF l.current_cu /\ l.dies[d].spec # 0
    THEN l.dies[d].spec
    ELSE get_referenced_die(l, d, "abstract_origin")

otherVars ==
  <<pc, batch, idx, ret, pending, mutex, locs, backend, symbols,
    dwarf_loaded, fobj_dwarf_map, disk, pool, calls, resolveCount, resolved,
    returned, primed, lastTrace, openCount, parseCount, buildCount, handles, consulted,
    namespace_stack, loadLog>>

InitWalk ==
  /\ InitFacade
  /\ InitBackend
  /\ InitDetailOff
  /\ backend = "libdwarf"
  /\ disk = FixtureDisk
  /\ pool = Addresses
  /\ die = 0
  /\ depth = 0
  /\ walk = "idle"
  /\ \E c \in BOOLEAN, d \in DieTrees : links = [current_cu |-> c, dies |-> d]

\* The walk of resolve calls die_has_pc or set_parameter_string on a DIE.
Enter(kind, d) ==
  /\ walk = "idle"
  /\ walk' = kind
  /\ die' = d
  /\ depth' = 1
  /\ UNCHANGED links
  /\ UNCHANGED otherVars
  /\ UNCHANGED detailVars

\* A call that needs one more frame than the stack holds ends the process.
Recurse(next) ==
  IF depth = MaxDepth
    THEN walk' = "crashed" /\ UNCHANGED <<die, depth>>
    ELSE walk' = walk /\ die' = next /\ depth' = depth + 1

\* One frame of die_has_pc: a DIE with addresses answers at once; one
\* without asks get_spec_die and calls itself on the DIE it gets.
die_has_pc ==
  /\ walk = "die_has_pc"
  /\ IF links.dies[die].has_pc \/ get_spec_die(links, die) = 0
       THEN walk' = "unwind" /\ UNCHANGED <<die, depth>>
       ELSE Recurse(get_spec_die(links, die))
  /\ UNCHANGED links
  /\ UNCHANGED otherVars
  /\ UNCHANGED detailVars

\* One frame of set_parameter_string: after its own tag it calls itself on
\* the DIE of DW_AT_type, if there is one.
set_parameter_string ==
  /\ walk = "set_parameter_string"
  /\ IF get_referenced_die(links, die, "type") = 0
       THEN walk' = "unwind" /\ UNCHANGED <<die, depth>>
       ELSE Recurse(get_referenced_die(links, die, "type"))
  /\ UNCHANGED links
  /\ UNCHANGED otherVars
  /\ UNCHANGED detailVars

\* The innermost frame returns to its caller.
Unwind ==
  /\ walk = "unwind"
  /\ depth' = depth - 1
  /\ walk' = IF depth = 1 THEN "returned" ELSE "unwind"
  /\ UNCHANGED <<die, links>>
  /\ UNCHANGED otherVars
  /\ UNCHANGED detailVars

NextWalk ==
  \/ \E k \in {"die_has_pc", "set_parameter_string"}, d \in Dies : Enter(k, d)
  \/ die_has_pc
  \/ set_parameter_string
  \/ Unwind

SpecWalk == InitWalk /\ [][NextWalk]_vars

InCritical(t) == pc[t] \in {"load", "loop", "emplace"}

Range(f) == {f[x] : x \in DOMAIN f}

(***************************************************************************)
(* C1: when a facade call returns, ret has the length of the batch and     *)
(* element i is the source location the backend gave for addresses[i].     *)
(***************************************************************************)
C1_OrderPreserved ==
  \A t \in Threads :
    pc[t] = "done" =>
      /\ Len(ret[t]) = Len(batch[t])
      /\ \A i \in 1..Len(batch[t]) :
           /\ batch[t][i] \in DOMAIN resolved
           /\ ret[t][i] = resolved[batch[t][i]]

C1_Witness ==
  /\ backend = "libdwarf"
  /\ \E t \in Threads :
       /\ pc[t] = "done"
       /\ batch[t] = <<12, 11>>
       /\ ret[t][1].line = 11
       /\ ret[t][2].line = 10
       /\ \E u \in Threads \ {t} : pc[u] = "done" /\ batch[u] = <<11, 11>>

(***************************************************************************)
(* C2: the backend's resolve is invoked at most once per distinct address. *)
(***************************************************************************)
C2_AtMostOnce ==
  \A a \in DOMAIN resolveCount : resolveCount[a] <= 1

C2_Witness ==
  /\ \A t \in Threads : pc[t] = "done" /\ 21 \in Range(batch[t])
  /\ DOMAIN resolveCount = {12, 21}
  /\ resolveCount[21] = 1
  /\ resolveCount[12] = 1

(***************************************************************************)
(* C3: an entry of the address cache is never removed or changed, and      *)
(* every value the facade hands out for an address is the same.            *)
(***************************************************************************)
EntriesKept ==
  \A a \in DOMAIN locs : a \in DOMAIN locs' /\ locs'[a] = locs[a]

SameEveryTime ==
  \A a \in DOMAIN returned : Cardinality(returned[a]) <= 1

C3_AppendOnly == [][EntriesKept]_vars /\ []SameEveryTime

C3_Witness ==
  /\ Cardinality(DOMAIN locs) = 2
  /\ \E t \in Threads :
       /\ pc[t] = "done"
       /\ Len(batch[t]) = 2
       /\ batch[t][1] = batch[t][2]
       /\ calls = 2

(***************************************************************************)
(* C4: at most one thread is between taking and releasing the mutex, and   *)
(* that thread is the holder.                                              *)
(***************************************************************************)
C4_MutualExclusion ==
  /\ Cardinality({t \in Threads : InCritical(t)}) <= 1
  /\ \A t \in Threads : InCritical(t) => mutex = t

C4_Witness ==
  \E t, u \in Threads :
    /\ t # u
    /\ pc[t] = "emplace"
    /\ pc[u] = "lock"

(***************************************************************************)
(* C5: under fair scheduling every facade call that waits for the mutex    *)
(* gets it and returns, and a thread outside resolve() never holds it.     *)
(***************************************************************************)
ReleasedOutside ==
  \A t \in Threads : ~InCritical(t) => mutex # t

C5_EveryCallReturns ==
  /\ []ReleasedOutside
  /\ \A t \in Threads : (pc[t] = "lock") ~> (pc[t] = "done")

C5_Witness ==
  \E t, u \in Threads :
    /\ t # u
    /\ pc[t] = "lock"
    /\ mutex = u
    /\ idx[u] = 1

(***************************************************************************)
(* C7: an address outside every loaded object resolves to the unknown      *)
(* location, no object file is loaded for it, and the result is cached.    *)
(***************************************************************************)
Outside(a) == ~dladdr1(a).ok

C7_OutsideIsUnknown ==
  \A a \in Addresses :
    Outside(a) =>
      /\ a \in DOMAIN resolved => resolved[a] = SourceLoc
      /\ a \in DOMAIN loadLog =>
           loadLog[a].path = None /\ loadLog[a].opened = <<>>
      /\ a \in DOMAIN locs => locs[a] = SourceLoc
      /\ \A t \in Threads :
           (pc[t] = "done" /\ a \in Range(batch[t])) => a \in DOMAIN locs

C7_Witness ==
  /\ backend = "libdwarf"
  /\ 1 \in DOMAIN locs
  /\ 1 \in DOMAIN loadLog
  /\ fobj_dwarf_map = EmptyMap
  /\ \E t \in Threads : pc[t] = "done" /\ batch[t] = <<1, 1>>

(***************************************************************************)
(* C8: the backend's resolve is invoked with (addr, idx) only when the     *)
(* batch last passed to load_addresses has addr at position idx, so the    *)
(* positional backend reads the entry of addr.                             *)
(***************************************************************************)
C8_IndexIsPosition ==
  \A i \in DOMAIN lastTrace :
    LET l == lastTrace[i] IN
      /\ l.idx < Len(l.primed)
      /\ l.primed[l.idx + 1] = l.addr
      /\ backend = "backtrace_symbol" => l.entry = l.addr

C8_Witness ==
  /\ backend = "backtrace_symbol"
  /\ lastTrace # <<>>
  /\ lastTrace[1].idx = 1
  /\ lastTrace[1].primed = <<11, 12>>
  /\ \E t, u \in Threads :
       /\ pc[t] = "done" /\ batch[t] = <<11>>
       /\ pc[u] = "emplace" /\ batch[u] = <<11, 12>>

(***************************************************************************)
(* C6: the recursions of a backend resolve return for every debug tree,    *)
(* also when the reference links between its nodes form a cycle: the walk  *)
(* never needs more frames than the stack holds.                           *)
(***************************************************************************)
C6_WalkReturns == walk # "crashed"

(***************************************************************************)
(* C9: once a path is in the object cache, every later load of it finds    *)
(* the entry with the handles and symbols of the first load, and opens and *)
(* parses no file.                                                         *)
(***************************************************************************)
LoadedStays ==
  \A p \in DOMAIN fobj_dwarf_map :
    /\ p \in DOMAIN fobj_dwarf_map'
    /\ fobj_dwarf_map'[p].file_handle = fobj_dwarf_map[p].file_handle
    /\ fobj_dwarf_map'[p].elf_handle = fobj_dwarf_map[p].elf_handle
    /\ fobj_dwarf_map'[p].dwarf_handle = fobj_dwarf_map[p].dwarf_handle
    /\ fobj_dwarf_map'[p].symbol_cache = fobj_dwarf_map[p].symbol_cache
    /\ openCount'[p] = openCount[p]
    /\ parseCount'[p] = parseCount[p]

HitsOpenNothing ==
  \A a \in DOMAIN loadLog : loadLog[a].hit => loadLog[a].opened = <<>>

C9_LoadIdempotent == [][LoadedStays]_vars /\ []HitsOpenNothing

C9_Witness ==
  /\ 41 \in DOMAIN loadLog
  /\ loadLog[41].hit
  /\ fobj_dwarf_map["liblinked.so"].dwarf_handle = "liblinked.debug"
  /\ openCount["liblinked.so"] = 2
  /\ parseCount["liblinked.so"] = 2
  /\ resolveCount[41] = 2

(***************************************************************************)
(* C10: a failed load leaves a cached entry; every later lookup of the     *)
(* path finds nothing, and the path is opened by its first load only.      *)
(* As claimed, the entry is empty. As the code has it, the entry holds no  *)
(* handle and no unit cache, and its symbol table is empty unless the step *)
(* that failed is the start of the debug information.                      *)
(***************************************************************************)
FailedPaths ==
  {p \in DOMAIN fobj_dwarf_map : fobj_dwarf_map[p].dwarf_handle = None}

FailedFindsNothing ==
  \A a \in DOMAIN loadLog :
    loadLog[a].path \in FailedPaths =>
      /\ loadLog[a].source = SourceLoc
      /\ loadLog[a].object_function = demangle(dladdr1(a).dli_sname)

FailedOpenedOnce ==
  \A p \in FailedPaths : openCount[p] = Len(LoadFresh(disk, p).opened)

FailedIsEmpty ==
  \A p \in FailedPaths : fobj_dwarf_map[p] = EmptyFobj

FailedHoldsNoHandle ==
  \A p \in FailedPaths :
    /\ [fobj_dwarf_map[p] EXCEPT !.symbol_cache = EmptyMap] = EmptyFobj
    /\ fobj_dwarf_map[p].symbol_cache # EmptyMap =>
         \E f \in {FileAt(disk, p)} :
           /\ f.open /\ f.elf_begin /\ f.getident
           /\ f.getshdrnum /\ f.getshdrstrndx
           /\ ~ELF_GET_DATA(f).failed

C10_FailedLoadIsEmpty ==
  FailedIsEmpty /\ FailedFindsNothing /\ FailedOpenedOnce

C10_FailedLoadFindsNothing ==
  FailedHoldsNoHandle /\ FailedFindsNothing /\ FailedOpenedOnce

C10_Witness ==
  /\ "libstripped.so" \in FailedPaths
  /\ fobj_dwarf_map["libstripped.so"].symbol_cache # EmptyMap
  /\ "libgone.so" \in FailedPaths
  /\ 21 \in DOMAIN loadLog
  /\ loadLog[21].hit
  /\ resolveCount[21] = 2

(***************************************************************************)
(* C11: when two facade calls that overlap in time need the same object    *)
(* path, the path is loaded once in total: the files of one load are       *)
(* opened and parsed, and the other call finds the entry in the map.       *)
(***************************************************************************)
C11_LoadedOnce ==
  \A p \in DOMAIN openCount :
    /\ openCount[p] = Len(LoadFresh(disk, p).opened)
    /\ parseCount[p] = Len(LoadFresh(disk, p).parsed)

C11_Witness ==
  /\ backend = "libdwarf"
  /\ \E t, u \in Threads :
       /\ pc[t] = "done" /\ batch[t] = <<11>>
       /\ pc[u] = "loop" /\ batch[u] = <<12>> /\ idx[u] = 1
  /\ DOMAIN loadLog = {11, 12}
  /\ loadLog[11].hit # loadLog[12].hit
  /\ openCount["/proc/self/exe"] = 1
  /\ parseCount["/proc/self/exe"] = 1

(***************************************************************************)
(* Inlined call chains (SpecTree).                                         *)
(***************************************************************************)
\* The object an address lies in, the address relative to it, and the
\* children of the unit find_die gives for it.
ObjectOf(a) == dladdr1(a).dli_fname

Relative(a) == a - dladdr1(a).l_addr

TreeOf(file, a) ==
  LET u == find_die(file.units, a)
  IN IF u = 0 THEN <<>> ELSE file.units[u].funcs

\* The entries with a tag whose own address range contains the address,
\* in the order of descent from the unit (outermost first), each as the
\* location the callback makes of it under the namespaces around it.
RECURSIVE TagPath(_, _, _, _, _)
TagPath(dies, i, a, ns, tag) ==
  IF i > Len(dies) THEN <<>>
  ELSE
    LET d == dies[i]
        ns1 == IF HasNamespace(d) THEN Append(ns, d.name) ELSE ns
    IN (IF d.tag = tag /\ RangeHasPc(d, a)
          THEN <<InlinedLoc(d, ns1)>> ELSE <<>>)
       \o TagPath(d.children, 1, a, ns1, tag)
       \o TagPath(dies, i + 1, a, ns, tag)

InlinedPath(file, a) ==
  TagPath(TreeOf(file, a), 1, a, <<>>, "DW_TAG_inlined_subroutine")

SubprogramPath(file, a) ==
  TagPath(TreeOf(file, a), 1, a, <<>>, "DW_TAG_subprogram")

Reverse(s) == [k \in 1..Len(s) |-> s[Len(s) + 1 - k]]

\* The addresses resolved so far that lie in libinline.so.
InlineResolved == {a \in DOMAIN loadLog : ObjectOf(a) = "libinline.so"}

NearestLine(lines, a) ==
  LET S == {i \in 1..Len(lines) : lines[i].addr <= a}
  IN IF S = {} THEN 0
     ELSE CHOOSE i \in S :
            \A j \in S : \/ lines[j].addr < lines[i].addr
                          \/ (lines[j].addr = lines[i].addr /\ i <= j)

LinesOf(file, a) ==
  LET u == find_die(file.units, a)
  IN IF u = 0 THEN <<>> ELSE file.units[u].lines

\* The line records of the unit of the address reach from at or below the
\* address to at or above it.
LinesCover(file, a) ==
  \E i, j \in 1..Len(LinesOf(file, a)) :
    LinesOf(file, a)[i].addr <= a /\ a <= LinesOf(file, a)[j].addr

FooResolved ==
  {a \in InlineResolved :
     /\ RangeHasPc(InlineFile.units[1].funcs[2], Relative(a))
     /\ LinesCover(InlineFile, Relative(a))}

\* C14: the reconstructed signature of a function is its return type, a
\* space, its namespace-qualified name and a parenthesized comma-joined
\* list of parameter types with modifiers in source order: for the
\* function int foo(const char*, MyClass&) it is exactly the string
\* "int foo(const char*, MyClass&)".
C14_SignatureOfFoo ==
  \A a \in FooResolved :
    loadLog[a].source.function = "int foo(const char*, MyClass&)"

(***************************************************************************)
(* Objects with a symbol table and no debug information.                   *)
(***************************************************************************)
\* The loaded paths whose object gave function symbols and no debug
\* handle.
SymbolsOnlyPaths ==
  {p \in DOMAIN fobj_dwarf_map :
     /\ fobj_dwarf_map[p].dwarf_handle = None
     /\ fobj_dwarf_map[p].symbol_cache # EmptyMap}

SymbolsOnlyResolved ==
  {a \in DOMAIN loadLog : loadLog[a].path \in SymbolsOnlyPaths}

\* C15: for an address in a stripped binary (symbol table present, no
\* debug sections) the resolved trace has a non-empty object_function
\* taken from the symbol table, while source.filename is absent and
\* source.line is 0.
C15_StrippedNamedFromSymbols ==
  \A a \in SymbolsOnlyResolved :
    /\ loadLog[a].object_function # ""
    /\ \E k \in DOMAIN fobj_dwarf_map[loadLog[a].path].symbol_cache :
         loadLog[a].object_function =
           demangle(fobj_dwarf_map[loadLog[a].path].symbol_cache[k])
    /\ loadLog[a].source.filename = ""
    /\ loadLog[a].source.line = 0

\* C16: when only the symbol table is available for an address (no debug
\* info at all), object_function is populated from the flat symbol table
\* and the function field of the location the facade keeps for the address
\* is set to the same name.
C16_FunctionMirrorsSymbol ==
  \A a \in SymbolsOnlyResolved :
    /\ loadLog[a].object_function # ""
    /\ resolved[a].function = loadLog[a].object_function

(***************************************************************************)
(* Line lookups that fail.                                                 *)
(***************************************************************************)
\* The resolved addresses of libinline.so whose unit is found and has no
\* line record at or below the address: the address precedes every line
\* entry, or the unit has no line table.
NoLineResolved ==
  {a \in InlineResolved :
     /\ find_die(InlineFile.units, Relative(a)) # 0
     /\ NearestLine(LinesOf(InlineFile, Relative(a)), Relative(a)) = 0}

\* C17 as stated: when the line lookup of an address fails (the unit is
\* found but the address precedes every line entry, or the unit has no
\* usable line table), source.filename and source.line stay unknown, and
\* the function-name search of the unit still runs and fills
\* source.function with the function around the address.
C17_FunctionSearchStillRuns ==
  \A a \in NoLineResolved :
    LET subprograms == SubprogramPath(InlineFile, Relative(a))
    IN /\ loadLog[a].source.filename = ""
       /\ loadLog[a].source.line = 0
       /\ subprograms # <<>> =>
            loadLog[a].source.function =
              subprograms[Len(subprograms)].function

\* C17 as the code has it: when the line lookup of an address fails,
\* resolve returns at once: source.filename, source.line and
\* source.function all stay unknown and inliners stays empty, whatever
\* function the unit has around the address; only object_function holds
\* what dladdr or the symbol lookup gave.
C17_LineFailureEndsResolve ==
  \A a \in NoLineResolved :
    /\ loadLog[a].source = SourceLoc
    /\ loadLog[a].inliners = <<>>
    /\ loadLog[a].object_function =
         IF dladdr1(a).dli_sname # "" THEN demangle(dladdr1(a).dli_sname)
         ELSE SymbolLookup(fobj_dwarf_map["libinline.so"].symbol_cache,
                           Relative(a))

C17_Witness ==
  /\ {51, 81} \subseteq DOMAIN loadLog
  /\ SubprogramPath(InlineFile, Relative(51)) # <<>>
  /\ SubprogramPath(InlineFile, Relative(81)) # <<>>
  /\ loadLog[51].source.function = ""
  /\ loadLog[81].source.function = ""
  /\ {11, 90} \subseteq DOMAIN fobj_dwarf_map["libinline.so"].die_cache

(***************************************************************************)
(* Entries that cannot be read.                                            *)
(***************************************************************************)
BrokenResolved == {a \in DOMAIN loadLog : ObjectOf(a) = "libbroken.so"}

\* What resolve gives for an address of libbroken.so when the entry that
\* cannot be read is left out of the tree and nothing else changes.
WithoutUnreadable(a) ==
  ResolveInObject([MakeTrace(a, 0) EXCEPT
                     !.object_filename = "libbroken.so"],
                  LoadFresh(disk, "libbroken.so").fobj,
                  SkippedFile, Relative(a)).trace

\* C18: when a single debug tree node cannot be read during a tree walk
\* (here: dwarf_siblingof fails on the node after impl), only that node is
\* skipped and the search goes on with the remaining nodes: the resolved
\* location and inliners are those of the tree without that node, and
\* resolution of the address is not aborted.
C18_OnlyUnreadableSkipped ==
  \A a \in BrokenResolved :
    /\ loadLog[a].source = WithoutUnreadable(a).source
    /\ loadLog[a].inliners = WithoutUnreadable(a).inliners

(***************************************************************************)
(* The line lookup.                                                        *)
(***************************************************************************)
\* The object file the debug information of an address is read from.
FileOf(a) == FileAt(disk, resolve_exec_path(dladdr1(a)).dli_fname)

\* The resolved addresses of the executable and of libinline.so whose
\* unit is found.
UnitResolved ==
  {a \in DOMAIN loadLog :
     /\ ObjectOf(a) \in {argv0_, "libinline.so"}
     /\ find_die(FileOf(a).units, Relative(a)) # 0}

LineRecordOf(a) ==
  LinesOf(FileOf(a), Relative(a))
    [NearestLine(LinesOf(FileOf(a), Relative(a)), Relative(a))]

FoundLineOf(a) ==
  /\ loadLog[a].source.filename = LineRecordOf(a).file
  /\ loadLog[a].source.line = LineRecordOf(a).line
  /\ loadLog[a].source.col = LineRecordOf(a).col

\* C19 as stated: the line lookup of a unit returns the line record with
\* the greatest address that is less than or equal to the target address,
\* for every target that is not below the first entry of the unit's line
\* table, including targets above the last entry.
C19_NearestLineAtOrBelow ==
  \A a \in UnitResolved :
    NearestLine(LinesOf(FileOf(a), Relative(a)), Relative(a)) # 0 =>
      FoundLineOf(a)

\* C19 as the code has it: the line lookup returns the first line record
\* of the greatest address that is less than or equal to the target, for
\* every target from the first entry of the unit's line table up to and
\* including the last; for a target above the last entry, as for one below
\* the first, it finds nothing and the source location stays unknown.
C19_NearestLineWithinTable ==
  \A a \in UnitResolved :
    /\ LinesCover(FileOf(a), Relative(a)) => FoundLineOf(a)
    /\ ~LinesCover(FileOf(a), Relative(a)) => loadLog[a].source = SourceLoc

C19_Witness ==
  /\ {55, 60, 65} \subseteq DOMAIN loadLog
  /\ loadLog[55].source.filename = "inl.h" /\ loadLog[55].source.line = 7
  /\ loadLog[60].source.line = 50
  /\ NearestLine(LinesOf(FileOf(65), Relative(65)), Relative(65)) = 4
  /\ loadLog[65].source.line = 0

(***************************************************************************)
(* The flat symbol lookup.                                                 *)
(***************************************************************************)
\* The resolved addresses for which resolve reaches the symbol_cache
\* lookup: dladdr gave no symbol name and the object has a debug handle.
SymbolLookedUp ==
  {a \in DOMAIN loadLog :
     /\ dladdr1(a).ok /\ dladdr1(a).dli_sname = ""
     /\ loadLog[a].path \in DOMAIN fobj_dwarf_map
     /\ fobj_dwarf_map[loadLog[a].path].dwarf_handle # None}

\* The name of the symbol with the largest address that is not above the
\* address; empty when every symbol address is above it.
NearestSymbol(cache, a) ==
  LET S == {k \in DOMAIN cache : k <= a}
  IN IF S = {} THEN "" ELSE demangle(cache[SetMax(S)])

\* C20: the flat symbol-table fallback for object_function picks the
\* symbol with the largest address less than or equal to the
\* module-relative target address, for every target, and picks no symbol
\* when every symbol address is greater than the target.
C20_NearestPrecedingSymbol ==
  \A a \in SymbolLookedUp :
    loadLog[a].object_function =
      NearestSymbol(fobj_dwarf_map[loadLog[a].path].symbol_cache,
                    Relative(a))

(***************************************************************************)
(* The scan of the function trees in find_die.                             *)
(***************************************************************************)
\* The units of a file that have a function or inlined-call node, at any
\* depth, whose own address range contains the address.
UnitsWithFunction(file, a) ==
  {u \in 1..Len(file.units) :
     \/ TagPath(file.units[u].funcs, 1, a, <<>>, "DW_TAG_subprogram") # <<>>
     \/ TagPath(file.units[u].funcs, 1, a, <<>>,
                "DW_TAG_inlined_subroutine") # <<>>}

\* The resolved addresses of libinline.so that no unit range contains.
ScanResolved ==
  {a \in InlineResolved :
     \A u \in 1..Len(InlineFile.units) :
       ~RangeHasPc(InlineFile.units[u], Relative(a))}

\* C21: when the address ranges give no match, the scan over all
\* compilation units returns a unit whenever some function or inlined-call
\* node of that unit contains the address, at any nesting depth: resolve
\* goes on to load the line table of such a unit.
C21_NestedFunctionFound ==
  \A a \in ScanResolved :
    UnitsWithFunction(InlineFile, Relative(a)) # {} =>
      \E u \in UnitsWithFunction(InlineFile, Relative(a)) :
        InlineFile.units[u].offset
          \in DOMAIN fobj_dwarf_map["libinline.so"].die_cache

(***************************************************************************)
(* Objects with a debug link (SpecLoad).                                   *)
(***************************************************************************)
\* The loaded paths whose object file can be scanned and names a
\* debug-link file.
LinkedPaths ==
  {p \in DOMAIN fobj_dwarf_map :
     \E f \in {FileAt(disk, p)} :
       /\ f.open /\ f.elf_begin /\ f.getident
       /\ f.getshdrnum /\ f.getshdrstrndx /\ f.class \in {32, 64}
       /\ ~ELF_GET_DATA(f).failed
       /\ ELF_GET_DATA(f).debuglink # ""}

LinkOf(p) == FileAt(disk, ELF_GET_DATA(FileAt(disk, p)).debuglink)

\* The file a debug handle of an object was made from, None without one.
DebugSource(f, path) == IF f.dwarf_init THEN path ELSE None

\* C22 as stated: if an object has a debug-link section and the named
\* file can be opened, the loaded ObjectFile takes both its symbol table
\* and its debug data from the external file; if that file cannot be
\* opened, both come from the original file.
C22_BothFromLink ==
  \A p \in LinkedPaths :
    IF LinkOf(p).open
      THEN /\ fobj_dwarf_map[p].symbol_cache =
                ELF_GET_DATA(LinkOf(p)).symbol_cache
           /\ fobj_dwarf_map[p].dwarf_handle =
                DebugSource(LinkOf(p), ELF_GET_DATA(FileAt(disk, p)).debuglink)
      ELSE /\ fobj_dwarf_map[p].symbol_cache =
                ELF_GET_DATA(FileAt(disk, p)).symbol_cache
           /\ fobj_dwarf_map[p].dwarf_handle =
                DebugSource(FileAt(disk, p), p)

\* C22 as the code has it: the symbol table of the loaded ObjectFile is
\* always the one of the original file; the debug data come from the
\* debug-link file if that file can be opened and read as an ELF object,
\* and from the original file otherwise.
C22_DebugFromLink ==
  \A p \in LinkedPaths :
    /\ fobj_dwarf_map[p].symbol_cache =
         ELF_GET_DATA(FileAt(disk, p)).symbol_cache
    /\ fobj_dwarf_map[p].dwarf_handle =
         IF LinkOf(p).open /\ LinkOf(p).elf_begin
           THEN DebugSource(LinkOf(p),
                            ELF_GET_DATA(FileAt(disk, p)).debuglink)
           ELSE DebugSource(FileAt(disk, p), p)

C22_Witness ==
  /\ "liblinked.so" \in LinkedPaths
  /\ disk["liblinked.debug"] = DebugFile
  /\ fobj_dwarf_map["liblinked.so"].dwarf_handle = "liblinked.debug"
  /\ fobj_dwarf_map["liblinked.so"].symbol_cache = (1 :> "linked_fn")
  /\ ELF_GET_DATA(DebugFile).symbol_cache = (1 :> "debug_fn")
  /\ 41 \in DOMAIN loadLog
  /\ loadLog[41].source.filename = "linked.c"

(***************************************************************************)
(* The symbol table the loader reads (SpecLoad).                           *)
(***************************************************************************)
\* The loaded paths whose object file can be scanned to the end.
ScannedPaths ==
  {p \in DOMAIN fobj_dwarf_map :
     \E f \in {FileAt(disk, p)} :
       /\ f.open /\ f.elf_begin /\ f.getident
       /\ f.getshdrnum /\ f.getshdrstrndx /\ f.class \in {32, 64}
       /\ ~ELF_GET_DATA(f).failed}

SectionsOfType(f, type) ==
  {i \in 1..Len(f.sections) : f.sections[i].type = type}

FunctionSymbols(syms) == {i \in 1..Len(syms) : syms[i].type = "STT_FUNC"}

\* C23 as stated: for every order in which the section headers of an
\* object appear, the loaded symbol table holds every function-type
\* symbol of the static symbol table when one exists, and symbols of the
\* dynamic symbol table only when the object has no static symbol table.
C23_EveryStaticFunction ==
  \A p \in ScannedPaths :
    LET f == FileAt(disk, p)
        cache == fobj_dwarf_map[p].symbol_cache
    IN \A i \in 1..Len(f.sections) :
         LET syms == f.sections[i].syms IN
         /\ f.sections[i].type = "SHT_SYMTAB" =>
              \A k \in FunctionSymbols(syms) :
                /\ syms[k].value \in DOMAIN cache
                /\ cache[syms[k].value] = syms[k].name
         /\ (/\ f.sections[i].type = "SHT_DYNSYM"
             /\ SectionsOfType(f, "SHT_SYMTAB") # {}) =>
              \A k \in FunctionSymbols(syms) :
                \A a \in DOMAIN cache : cache[a] # syms[k].name

\* The symbols the loader keeps of a section: the function-type symbols
\* with an address above 0, one name per address, the last in the order of
\* the table.
KeptSymbols(syms) ==
  [a \in {syms[k].value : k \in {j \in FunctionSymbols(syms) :
                                    syms[j].value > 0}} |->
     syms[SetMax({k \in FunctionSymbols(syms) : syms[k].value = a})].name]

\* C23 as the code has it: for every order of the section headers, the
\* loaded symbol table holds, for each address above 0 that a
\* function-type symbol of the static symbol table has, the name of the
\* last such symbol in the table, and nothing else; the dynamic symbol
\* table is used in the same way only when the object has no static
\* symbol table.
C23_StaticFunctionsWithAddress ==
  \A p \in ScannedPaths :
    LET f == FileAt(disk, p)
        static == SectionsOfType(f, "SHT_SYMTAB")
        dynamic == SectionsOfType(f, "SHT_DYNSYM")
    IN fobj_dwarf_map[p].symbol_cache =
         IF static # {} THEN KeptSymbols(f.sections[SetMax(static)].syms)
         ELSE IF dynamic # {}
                THEN KeptSymbols(f.sections[SetMin(dynamic)].syms)
         ELSE EmptyMap

C23_Witness ==
  /\ disk["/proc/self/exe"] =
       Reordered(ExeFile, [k \in 1..3 |-> 4 - k])
  /\ "/proc/self/exe" \in ScannedPaths
  /\ fobj_dwarf_map["/proc/self/exe"].symbol_cache =
       (1 :> "main") @@ (3 :> "_Z6helperv")

(***************************************************************************)
(* The cache of unit entries (SpecTree).                                   *)
(***************************************************************************)
\* The unit of a file with an offset.
UnitAt(file, offset) ==
  file.units[CHOOSE u \in 1..Len(file.units) :
               file.units[u].offset = offset]

\* The file the debug handle of a loaded path reads.
DebugFileOf(p) == FileAt(disk, fobj_dwarf_map[p].dwarf_handle)

C25_EveryHandleReleased ==
  \A a \in DOMAIN handles : handles[a].released = handles[a].obtained

(***************************************************************************)
(* details::split_source_prefixes on its own: the function applied to      *)
(* every string of up to MaxPath characters.  A std::string is modelled as *)
(* the sequence of its characters, positions counted from 0 as in the      *)
(* code.                                                                   *)
(***************************************************************************)
kBackwardPathDelimiter == << ":" >>

PathChars == {":", "a", "b"}

PathStrings == UNION {[1..n -> PathChars] : n \in 0..MaxPath}

npos == 0 - 1

\* s.find(d, pos): the first position at or after pos where d starts.
find(s, d, pos) ==
  IF \E i \in pos..(Len(s) - Len(d)) : SubSeq(s, i + 1, i + Len(d)) = d
    THEN CHOOSE i \in pos..(Len(s) - Len(d)) :
           /\ SubSeq(s, i + 1, i + Len(d)) = d
           /\ \A j \in pos..(i - 1) : SubSeq(s, j + 1, j + Len(d)) # d
    ELSE npos

\* s.substr(pos, n): at most n characters starting at pos.
substr(s, pos, n) ==
  SubSeq(s, pos + 1, IF pos + n < Len(s) THEN pos + n ELSE Len(s))

delimiter_size == Len(kBackwardPathDelimiter)

\* The while loop from position last on, and the push_back after it.
RECURSIVE SplitFrom(_, _, _)
SplitFrom(s, last, out) ==
  IF find(s, kBackwardPathDelimiter, last) # npos
    THEN SplitFrom(s,
                   find(s, kBackwardPathDelimiter, last) + delimiter_size,
                   Append(out,
                          substr(s, last,
                                 find(s, kBackwardPathDelimiter, last) - last)))
    ELSE IF last <= Len(s)
           THEN Append(out, substr(s, last, Len(s)))
           ELSE out

split_source_prefixes(s) == SplitFrom(s, 0, <<>>)

InitSplit ==
  /\ InitFacade
  /\ InitBackend
  /\ InitWalkOff
  /\ backend = "libdwarf"
  /\ disk = FixtureDisk
  /\ pool = Addresses
  /\ hnd = <<>>
  /\ cu_scan = <<>>
  /\ \E s \in PathStrings : split = [s |-> s, out |-> <<>>, pc |-> "called"]

Split ==
  /\ split.pc = "called"
  /\ split' = [split EXCEPT !.out = split_source_prefixes(split.s),
                            !.pc = "returned"]
  /\ UNCHANGED <<walkVars, otherVars, hnd, cu_scan>>

NextSplit == Split

SpecSplit == InitSplit /\ [][NextSplit]_vars

\* The positions of the delimiters of s, and the piece before the k-th.
DelimiterAt(s) == {i \in 1..Len(s) : s[i] = ":"}

PieceStart(s, k) ==
  IF k = 1 THEN 1
  ELSE 1 + CHOOSE i \in DelimiterAt(s) :
             Cardinality({j \in DelimiterAt(s) : j < i}) = k - 2

PieceEnd(s, k) ==
  IF k = Cardinality(DelimiterAt(s)) + 1 THEN Len(s)
  ELSE (CHOOSE i \in DelimiterAt(s) :
          Cardinality({j \in DelimiterAt(s) : j < i}) = k - 1) - 1

Pieces(s) ==
  [k \in 1..(Cardinality(DelimiterAt(s)) + 1) |->
     SubSeq(s, PieceStart(s, k), PieceEnd(s, k))]

\* C26: split_source_prefixes splits a string on the path delimiter as
\* its comment documents: the empty string gives the empty list, ":" gives
\* two empty strings, "::" three, a string without a delimiter that one
\* string, and in general the pieces between consecutive delimiters are
\* returned in order.
C26_SplitsAsDocumented ==
  split.pc = "returned" =>
    split.out = IF split.s = <<>> THEN <<>> ELSE Pieces(split.s)

(***************************************************************************)
(* The declaration-to-specification map get_spec_die consults.             *)
(***************************************************************************)
\* C27: whenever the declaration-to-specification map is consulted for a
\* node, the map consulted is the one built for the compilation unit that
\* contains the node, never the map left over from the unit of a
\* previously resolved address.
C27_MapOfOwnUnit ==
  \A c \in consulted : c[2] = c[3]

(***************************************************************************)
(* The namespace stack of the tree walk.                                   *)
(***************************************************************************)
\* C28: the namespace stack used to qualify function names is balanced:
\* on every return path of deep_first_search_by_pc, including the return
\* taken when reading a sibling fails, the stack holds exactly the names
\* it held on entry; resolve enters the walk with an empty stack, so the
\* stack is empty again when the walk returns.
C28_StackBalanced ==
  \A a \in DOMAIN namespace_stack : namespace_stack[a] = <<>>

(***************************************************************************)
(* details::handle on its own: two handle objects and every sequence of    *)
(* up to MaxOps operations on them.  A resource is a number from 1 on;     *)
(* each acquisition hands out the next one, or fails.                      *)
(***************************************************************************)
HandleNames == {"x", "y"}

\* T(): the value of a default-constructed handle, and a null pointer.
Null == 0

\* What open() returns when it fails.
Failed == 0 - 1

HandleValues == {Failed, Null} \cup 1..MaxOps

NoObject == [alive |-> FALSE, val |-> Null, empty |-> TRUE]

\* explicit handle()
handle_default == [alive |-> TRUE, val |-> Null, empty |-> TRUE]

\* explicit handle(T val): _empty is set when !_val.
handle_of(val) == [alive |-> TRUE, val |-> val, empty |-> (val = Null)]

\* void update(T new_val)
update(h, new_val) == [h EXCEPT !.val = new_val, !.empty = (new_val = Null)]

\* T release()
release(h) == [h EXCEPT !.empty = TRUE]

\* T *operator&()
address_of(h) == [h EXCEPT !.empty = FALSE]

\* ~handle(): the calls of the deleter it makes, each with the value and
\* whether release() had handed that value out.
destructor(h, released) ==
  IF ~h.empty THEN << [val |-> h.val, released |-> h.val \in released] >>
  ELSE <<>>

\* The values an acquisition can give: the next resource, a null pointer,
\* or the failure value of open().
Acquired(s) == {s.next, Null, Failed}

Took(s, v) == IF v = s.next THEN s.next + 1 ELSE s.next

InitHandle ==
  /\ InitFacade
  /\ InitBackend
  /\ InitWalkOff
  /\ backend = "libdwarf"
  /\ disk = FixtureDisk
  /\ pool = Addresses
  /\ split = <<>>
  /\ cu_scan = <<>>
  /\ hnd = [obj |-> [n \in HandleNames |-> NoObject], deleter |-> <<>>,
            released |-> {}, next |-> 1, ops |-> 0]

Step(s) == [s EXCEPT !.ops = @ + 1]

HandleFrame == UNCHANGED <<walkVars, otherVars, split, cu_scan>>

\* handle h;
DefaultConstruct(n) ==
  /\ hnd.ops < MaxOps /\ ~hnd.obj[n].alive
  /\ hnd' = Step([hnd EXCEPT !.obj[n] = handle_default])
  /\ HandleFrame

\* handle h(val);
Construct(n, v) ==
  /\ hnd.ops < MaxOps /\ ~hnd.obj[n].alive
  /\ hnd' = Step([hnd EXCEPT !.obj[n] = handle_of(v),
                             !.next = Took(hnd, v)])
  /\ HandleFrame

\* handle h(move(from)): _val is not initialised before the swap, so the
\* moved-from object is left with any value, and empty.
MoveConstruct(n, from, w) ==
  /\ hnd.ops < MaxOps /\ ~hnd.obj[n].alive /\ hnd.obj[from].alive
  /\ hnd' = Step([hnd EXCEPT !.obj[n] = hnd.obj[from],
                             !.obj[from] = [alive |-> TRUE, val |-> w,
                                            empty |-> TRUE]])
  /\ HandleFrame

\* h = move(from): swap(from).
MoveAssign(n, from) ==
  /\ hnd.ops < MaxOps /\ hnd.obj[n].alive /\ hnd.obj[from].alive
  /\ n # from
  /\ hnd' = Step([hnd EXCEPT !.obj[n] = hnd.obj[from],
                             !.obj[from] = hnd.obj[n]])
  /\ HandleFrame

\* h.swap(b)
Swap(n, b) ==
  /\ hnd.ops < MaxOps /\ hnd.obj[n].alive /\ hnd.obj[b].alive
  /\ hnd' = Step([hnd EXCEPT !.obj[n] = hnd.obj[b],
                             !.obj[b] = hnd.obj[n]])
  /\ HandleFrame

\* h.reset(new_val): handle tmp(new_val); swap(tmp); tmp is destroyed.
Reset(n, v) ==
  /\ hnd.ops < MaxOps /\ hnd.obj[n].alive
  /\ hnd' = Step([hnd EXCEPT
                    !.obj[n] = handle_of(v),
                    !.next = Took(hnd, v),
                    !.deleter = @ \o destructor(hnd.obj[n], hnd.released)])
  /\ HandleFrame

\* h.update(new_val)
Update(n, v) ==
  /\ hnd.ops < MaxOps /\ hnd.obj[n].alive
  /\ hnd' = Step([hnd EXCEPT !.obj[n] = update(@, v),
                             !.next = Took(hnd, v)])
  /\ HandleFrame

\* h.release(): the caller now owns the value of a handle that was not
\* empty.
Release(n) ==
  /\ hnd.ops < MaxOps /\ hnd.obj[n].alive
  /\ hnd' = Step([hnd EXCEPT
                    !.obj[n] = release(@),
                    !.released = IF hnd.obj[n].empty THEN @
                                 ELSE @ \cup {hnd.obj[n].val}])
  /\ HandleFrame

\* &h passed as an output argument: the callee stores an acquired value
\* through the pointer, or returns without storing anything.
AddressOf(n, stores, v) ==
  /\ hnd.ops < MaxOps /\ hnd.obj[n].alive
  /\ hnd' = Step([hnd EXCEPT
                    !.obj[n] = IF stores
                                 THEN [address_of(@) EXCEPT !.val = v]
                                 ELSE address_of(@),
                    !.next = IF stores THEN Took(hnd, v) ELSE @])
  /\ HandleFrame

\* h goes out of scope.
Destroy(n) ==
  /\ hnd.ops < MaxOps /\ hnd.obj[n].alive
  /\ hnd' = Step([hnd EXCEPT
                    !.obj[n] = NoObject,
                    !.deleter = @ \o destructor(hnd.obj[n], hnd.released)])
  /\ HandleFrame

NextHandle ==
  \/ \E n \in HandleNames : DefaultConstruct(n)
  \/ \E n \in HandleNames, v \in Acquired(hnd) : Construct(n, v)
  \/ \E n, from \in HandleNames, w \in HandleValues :
       MoveConstruct(n, from, w)
  \/ \E n, from \in HandleNames : MoveAssign(n, from)
  \/ \E n, b \in HandleNames : Swap(n, b)
  \/ \E n \in HandleNames, v \in Acquired(hnd) : Reset(n, v)
  \/ \E n \in HandleNames, v \in Acquired(hnd) : Update(n, v)
  \/ \E n \in HandleNames : Release(n)
  \/ \E n \in HandleNames, stores \in BOOLEAN, v \in Acquired(hnd) :
       AddressOf(n, stores, v)
  \/ \E n \in HandleNames : Destroy(n)

SpecHandle == InitHandle /\ [][NextHandle]_vars

\* C29: for any sequence of operations on details::handle objects, the
\* deleter is invoked at most once for each acquired resource and never
\* on a value the handle does not own: a released value, a moved-from
\* value, or a value marking a failed acquisition.
C29_DeleterOnOwnedOnce ==
  \A i \in 1..Len(hnd.deleter) :
    /\ hnd.deleter[i].val \in 1..(hnd.next - 1)
    /\ ~hnd.deleter[i].released
    /\ \A j \in 1..Len(hnd.deleter) :
         j # i => hnd.deleter[j].val # hnd.deleter[i].val

(***************************************************************************)
(* find_die on its own, with the compilation-unit iterator that libdwarf   *)
(* keeps per Dwarf_Debug: up to MaxScans calls on one object, each for any *)
(* of the addresses.  The position of the iterator is the number of units  *)
(* dwarf_next_cu_header_d has handed out since it last started over.       *)
(***************************************************************************)
Arange(low, high, cu_die_offset) ==
  [low |-> low, high |-> high, cu_die_offset |-> cu_die_offset]

\* The objects scanned: libinline.so without a .debug_aranges section and
\* with one that indexes its first unit, the executable, and libbroken.so.
ScanObjects ==
  { [units |-> InlineFile.units, aranges |-> <<>>],
    [units |-> InlineFile.units, aranges |-> << Arange(1, 20, 11) >>],
    [units |-> ExeFile.units, aranges |-> <<>>],
    [units |-> BrokenFile.units, aranges |-> <<>>] }

ScanAddresses == {1, 4, 12, 31, 36, 38, 45}

\* dwarf_get_arange, dwarf_get_cu_die_offset and dwarf_offdie_b: the index
\* of the unit the range index gives for the address, 0 when it gives none.
ArangeLookup(obj, a) ==
  FirstIndex({u \in 1..Len(obj.units) :
                \E i \in 1..Len(obj.aranges) :
                  /\ a >= obj.aranges[i].low /\ a < obj.aranges[i].high
                  /\ obj.aranges[i].cu_die_offset = obj.units[u].offset})

\* while (dwarf_next_cu_header_d(...) == DW_DLV_OK) {}: fetch until the
\* call gives DW_DLV_NO_ENTRY, after which the iterator starts over.
ResetCu_skipped(units, pos) == pos

RECURSIVE ResetCu(_, _)
ResetCu(units, pos) ==
  IF pos >= Len(units) THEN 0 ELSE ResetCu(units, pos + 1)

\* The scan of the unit ranges from the position of the iterator on: the
\* unit found (0: none) and the position the loop leaves.
RECURSIVE UnitScan(_, _, _)
UnitScan(units, a, pos) ==
  IF pos >= Len(units) THEN [unit |-> 0, pos |-> 0]
  ELSE IF RangeHasPc(units[pos + 1], a)
         THEN [unit |-> pos + 1, pos |-> pos + 1]
  ELSE UnitScan(units, a, pos + 1)

\* The scan of the function trees from the position of the iterator on.
RECURSIVE FunctionScan(_, _, _)
FunctionScan(units, a, pos) ==
  IF pos >= Len(units) THEN [unit |-> 0, pos |-> 0]
  ELSE IF find_fundie_by_pc(units[pos + 1].funcs, 1, a)
         THEN [unit |-> pos + 1, pos |-> pos + 1]
  ELSE FunctionScan(units, a, pos + 1)

\* find_die with the iterator at pos: the unit returned, how it was found
\* and the position of the iterator on return.
find_die_from(obj, a, pos) ==
  IF ArangeLookup(obj, a) # 0
    THEN [unit |-> ArangeLookup(obj, a), how |-> "aranges", pos |-> pos]
  ELSE IF UnitScan(obj.units, a, pos).unit # 0
    THEN [unit |-> UnitScan(obj.units, a, pos).unit, how |-> "units",
          pos |-> ResetCu(obj.units, UnitScan(obj.units, a, pos).pos)]
  ELSE IF FunctionScan(obj.units, a, UnitScan(obj.units, a, pos).pos).unit
          # 0
    THEN [unit |->
            FunctionScan(obj.units, a, UnitScan(obj.units, a, pos).pos).unit,
          how |-> "functions",
          pos |->
            ResetCu(obj.units,
                    FunctionScan(obj.units, a,
                                 UnitScan(obj.units, a, pos).pos).pos)]
  ELSE [unit |-> 0, how |-> "none",
        pos |-> FunctionScan(obj.units, a,
                             UnitScan(obj.units, a, pos).pos).pos]

InitScan ==
  /\ InitFacade
  /\ InitBackend
  /\ InitWalkOff
  /\ backend = "libdwarf"
  /\ disk = FixtureDisk
  /\ pool = Addresses
  /\ split = <<>>
  /\ hnd = <<>>
  /\ \E obj \in ScanObjects :
       cu_scan = [obj |-> obj, pos |-> 0, hows |-> <<>>, addr |-> 0,
               unit |-> 0, from |-> 0]

FindDie(a) ==
  /\ Len(cu_scan.hows) < MaxScans
  /\ \E r \in {find_die_from(cu_scan.obj, a, cu_scan.pos)} :
       cu_scan' = [cu_scan EXCEPT !.pos = r.pos, !.hows = Append(@, r.how),
                            !.addr = a, !.unit = r.unit,
                            !.from = cu_scan.pos]
  /\ UNCHANGED <<walkVars, otherVars, split, hnd>>

NextScan == \E a \in ScanAddresses : FindDie(a)

SpecScan == InitScan /\ [][NextScan]_vars

\* C30: on every return from find_die, whether a unit was found by the
\* range index, by the unit-range scan, by the function-tree scan, or not
\* at all, the compilation-unit iterator of the object is back at its
\* start, so the scan of the next address visits every compilation unit
\* beginning with the first: without a range index it returns what the
\* scan from the first unit returns.
C30_IteratorBackAtStart ==
  /\ cu_scan.pos = 0
  /\ cu_scan.hows # <<>> /\ cu_scan.obj.aranges = <<>> =>
       cu_scan.unit = find_die(cu_scan.obj.units, cu_scan.addr)

C30_Witness ==
  /\ cu_scan.hows = <<"aranges", "units", "functions", "none">>
  /\ cu_scan.pos = 0
====
